---- MODULE Spec2Model ----
(***************************************************************************)
(* photo-selector: the generate-embeddings handler with its module-level   *)
(* CLIP model cache (initializeModel), and the DBSCAN clustering utility.  *)
(*                                                                         *)
(* JavaScript runs every piece of code between two awaits to completion,   *)
(* so each action below is one such piece: the code from one suspension     *)
(* point of a request (or of the initialization closure) to the next.      *)
(***************************************************************************)
EXTENDS Integers, Sequences, FiniteSets, TLC

VARIABLES
    cfg,         \* the driver: which requests arrive and how long their lists are
    modelCache,  \* the module-level ModelCache object
    promises,    \* every initialization promise ever created, indexed by identity
    req,         \* per request: its position in POST and its request-scoped data
    db,          \* the state of one dbscan call (points, work-list, counters)
    other,       \* the result of dbscan on the reordered input
    grp,         \* one request to the group-photos handler
    pick,        \* one best-pick: the page's selection and the request it sends
    variant,     \* the embeddings handler that keeps two module-level variables
    viewer       \* the photo viewer page: its photos and its current index

vars == <<cfg, modelCache, promises, req, db, other, grp, pick, variant, viewer>>

(***************************************************************************)
(* Bounds of the model.                                                    *)
(***************************************************************************)
NumReqs == 3        \* requests of the cache-centred specification
MaxPaths == 2       \* longest photoPaths list of the batch-centred specification
MaxN == 3           \* most embeddings of a step-by-step dbscan run
PermN == 5          \* most embeddings of a dbscan run compared with its reordering
MaxMinPts == 4      \* largest minPts tried (the validated range is 1..100)
NumCalls == 3       \* requests to the handler with two module-level variables
MaxViewed == 3      \* most photos a folder scan returns
MaxScans == 2       \* folder scans of one session of the viewer page

(***************************************************************************)
(* Values.  null is the empty tuple; a JavaScript string is the characters *)
(* listed in chars followed by `extra` further ordinary characters, so a   *)
(* long string needs no long sequence.                                     *)
(***************************************************************************)
Null == <<>>

Str(chars, extra) == [type |-> "string", chars |-> chars, extra |-> extra]

NotAString == [type |-> "number", chars |-> <<>>, extra |-> 0]

StrLength(s) == Len(s.chars) + s.extra

RECURSIVE TrimLeft(_)
TrimLeft(cs) ==
    IF cs # <<>> /\ Head(cs) = " " THEN TrimLeft(Tail(cs)) ELSE cs

RECURSIVE TrimRight(_)
TrimRight(cs) ==
    IF cs # <<>> /\ cs[Len(cs)] = " " THEN TrimRight(SubSeq(cs, 1, Len(cs) - 1)) ELSE cs

\* String.prototype.trim
Trim(s) ==
    IF s.extra > 0 THEN Str(TrimLeft(s.chars), s.extra)
    ELSE Str(TrimRight(TrimLeft(s.chars)), 0)

\* String.prototype.includes('\0')
IncludesNul(s) == \E i \in 1..Len(s.chars) : s.chars[i] = "NUL"

maxCount == 1000
maxLength == 1000

\* A JavaScript array (or a value that is no array): the elements listed in
\* items followed by `extra` further valid elements, so that an array over the
\* count limit needs no long sequence.  Array.prototype.length:
ArrayLength(a) == Len(a.items) + a.extra

\* The first check of the per-item loop that fails for the item, "" when none does.
PhotoPathError(photoPath, maxLen) ==
    IF photoPath.type # "string" THEN "must be a string"
    ELSE IF StrLength(Trim(photoPath)) = 0 THEN "cannot be empty"
    ELSE IF StrLength(photoPath) > maxLen THEN "is too long"
    ELSE IF IncludesNul(photoPath) THEN "contains invalid characters"
    ELSE ""

\* validatePhotoPaths: [ok |-> TRUE, value |-> the trimmed paths] or the
\* ValidationError it throws.
validatePhotoPaths(photoPaths, maxCnt, maxLen) ==
    IF ~photoPaths.isArray
    THEN [ok |-> FALSE, value |-> <<>>, error |-> "Photo paths must be an array"]
    ELSE IF ArrayLength(photoPaths) = 0
    THEN [ok |-> FALSE, value |-> <<>>, error |-> "Photo paths array cannot be empty"]
    ELSE IF ArrayLength(photoPaths) > maxCnt
    THEN [ok |-> FALSE, value |-> <<>>, error |-> "Too many photos"]
    ELSE IF \E i \in 1..Len(photoPaths.items) : PhotoPathError(photoPaths.items[i], maxLen) # ""
    THEN LET i == CHOOSE j \in 1..Len(photoPaths.items) :
                      /\ PhotoPathError(photoPaths.items[j], maxLen) # ""
                      /\ \A k \in 1..(j - 1) : PhotoPathError(photoPaths.items[k], maxLen) = ""
         IN [ok |-> FALSE, value |-> <<>>, error |-> PhotoPathError(photoPaths.items[i], maxLen)]
    ELSE [ok |-> TRUE,
          value |-> [i \in 1..Len(photoPaths.items) |-> Trim(photoPaths.items[i])],
          error |-> ""]

(***************************************************************************)
(* The request bodies the model sends.                                     *)
(***************************************************************************)
RawPaths ==
    { Str(<<"a">>, 0), Str(<<"b">>, 0), Str(<<" ", "a">>, 0), Str(<<" ">>, 0),
      Str(<<"a", "NUL">>, 0), Str(<<"a">>, maxLength), NotAString }

SeqsUpTo(S, n) == UNION { [1..k -> S] : k \in 0..n }

Bodies(rawPaths, maxLen) ==
    { [isArray |-> TRUE, items |-> s, extra |-> 0] : s \in SeqsUpTo(rawPaths, maxLen) }
        \cup { [isArray |-> FALSE, items |-> <<>>, extra |-> 0],
               [isArray |-> TRUE, items |-> <<>>, extra |-> maxCount + 1] }

(***************************************************************************)
(* EmbeddingCache: modelCache and initializeModel.                         *)
(* An object (processor, model, promise) is identified by the number of    *)
(* the initialization that created it; 0 is null.                          *)
(***************************************************************************)
NewPromise == [state |-> "pending", processor |-> "loading", model |-> "loading"]

\* Faulty variant: the check for an initialization in progress is missing.
initializeModelNoJoin(mc, ps) ==
    IF mc.imageProcessor # 0 /\ mc.visionModel # 0
    THEN [cache |-> mc, promises |-> ps, awaits |-> 0,
          value |-> [ok |-> TRUE, imageProcessor |-> mc.imageProcessor,
                     visionModel |-> mc.visionModel]]
    ELSE [cache |-> [mc EXCEPT !.initializationPromise = Len(ps) + 1],
          promises |-> Append(ps, NewPromise),
          awaits |-> Len(ps) + 1,
          value |-> [ok |-> FALSE, imageProcessor |-> 0, visionModel |-> 0]]

\* The synchronous part of initializeModel, up to its first await or return:
\* the cache and promises it leaves, the promise it awaits (0: none) and, when it
\* returns without awaiting, the pair it returns.
initializeModel(mc, ps) ==
    IF mc.imageProcessor # 0 /\ mc.visionModel # 0
    THEN [cache |-> mc, promises |-> ps, awaits |-> 0,
          value |-> [ok |-> TRUE, imageProcessor |-> mc.imageProcessor,
                     visionModel |-> mc.visionModel]]
    ELSE IF mc.initializationPromise # 0
    THEN [cache |-> mc, promises |-> ps, awaits |-> mc.initializationPromise,
          value |-> [ok |-> FALSE, imageProcessor |-> 0, visionModel |-> 0]]
    ELSE [cache |-> [mc EXCEPT !.initializationPromise = Len(ps) + 1],
          promises |-> Append(ps, NewPromise),
          awaits |-> Len(ps) + 1,
          value |-> [ok |-> FALSE, imageProcessor |-> 0, visionModel |-> 0]]

\* Promise.all over the two from_pretrained calls: rejected by the first failure,
\* fulfilled once both have loaded.
PromiseAllState(p) ==
    IF p.processor = "failed" \/ p.model = "failed" THEN "rejected"
    ELSE IF p.processor = "loaded" /\ p.model = "loaded" THEN "fulfilled"
    ELSE "pending"

\* Faulty variant: the caller reads the cache after the await instead of taking
\* what the promise settled with.
AwaitedValueFromCache(ps, mc, id) ==
    IF mc.imageProcessor # 0 /\ mc.visionModel # 0
    THEN [ok |-> TRUE, imageProcessor |-> mc.imageProcessor, visionModel |-> mc.visionModel]
    ELSE [ok |-> FALSE, imageProcessor |-> 0, visionModel |-> 0]

\* What `await promise` hands to a caller of initializeModel once promise id has
\* settled: the pair the closure returned, or the error it rethrew.
AwaitedValue(ps, mc, id) ==
    IF ps[id].state = "fulfilled"
    THEN [ok |-> TRUE, imageProcessor |-> id, visionModel |-> id]
    ELSE [ok |-> FALSE, imageProcessor |-> 0, visionModel |-> 0]

\* Faulty variant: the catch rethrows without clearing the promise.
InitializationSettledKeepsPromise(mc, p, id) ==
    IF PromiseAllState(p) = "fulfilled"
    THEN [cache |-> [mc EXCEPT !.imageProcessor = id, !.visionModel = id],
          state |-> "fulfilled"]
    ELSE [cache |-> mc, state |-> "rejected"]

\* Faulty variant: the promise is cleared on success too and only the processor
\* is stored.
InitializationSettledOneStored(mc, p, id) ==
    IF PromiseAllState(p) = "fulfilled"
    THEN [cache |-> [mc EXCEPT !.imageProcessor = id, !.initializationPromise = 0],
          state |-> "fulfilled"]
    ELSE [cache |-> [mc EXCEPT !.initializationPromise = 0], state |-> "rejected"]

\* The continuation of the initialization closure after its await: the cache it
\* leaves and the state its promise settles in.  On success it stores the pair and
\* returns it; the catch clears the promise and rethrows.
InitializationSettled(mc, p, id) ==
    IF PromiseAllState(p) = "fulfilled"
    THEN [cache |-> [mc EXCEPT !.imageProcessor = id, !.visionModel = id],
          state |-> "fulfilled"]
    ELSE [cache |-> [mc EXCEPT !.initializationPromise = 0], state |-> "rejected"]

(***************************************************************************)
(* EmbeddingProducer: the batch of POST.                                   *)
(***************************************************************************)
\* The vector the extractor returns for the image at a path.
Embedding(path) == <<"embedding of">> \o path.chars

\* The object one map callback returns: the try branch or the catch branch.
EmbeddingEntry(i, path, outcome) ==
    IF outcome = "ok"
    THEN [index |-> i, path |-> path, embedding |-> Embedding(path), error |-> Null]
    ELSE IF outcome = "missing"
    THEN [index |-> i, path |-> path, embedding |-> Null,
          error |-> <<"File not found: ">> \o path.chars]
    ELSE [index |-> i, path |-> path, embedding |-> Null, error |-> <<"extraction failed">>]

WithoutIndex(e) == [path |-> e.path, embedding |-> e.embedding, error |-> e.error]

\* Faulty variant: the results are collected in the order they settle.
PromiseAllInSettleOrder(settled, n) ==
    [k \in 1..n |-> WithoutIndex(settled[k])]

\* Promise.all: the array of the callbacks' results, each at the position of its
\* promise, whatever the order in which they settled.
PromiseAll(settled, n) ==
    [i \in 1..n |->
        WithoutIndex(settled[CHOOSE k \in 1..Len(settled) : settled[k].index = i])]

\* Faulty variant: a callback's error is not caught in the callback, so it
\* rejects Promise.all and the outer catch answers 500.
PostResponseFailFast(settled, n) ==
    IF \E k \in 1..Len(settled) : settled[k].error # Null
    THEN [status |-> 500, embeddings |-> <<>>]
    ELSE [status |-> 200, embeddings |-> PromiseAll(settled, n)]

\* What POST answers once Promise.all has settled.  Every callback catches its own
\* error, so Promise.all never rejects and the outer catch is not reached.
PostResponse(settled, n) ==
    [status |-> 200, embeddings |-> PromiseAll(settled, n)]

\* The settled entries of the callbacks that threw before their first await, in
\* the order map called them.
RECURSIVE SettledInMap(_, _, _)
SettledInMap(paths, missing, i) ==
    IF i > Len(paths) THEN <<>>
    ELSE IF i \in missing
         THEN <<EmbeddingEntry(i, paths[i], "missing")>> \o SettledInMap(paths, missing, i + 1)
         ELSE SettledInMap(paths, missing, i + 1)

NoModels == [ok |-> FALSE, imageProcessor |-> 0, visionModel |-> 0]

IdleReq ==
    [pc |-> "idle", photoPaths |-> <<>>, awaits |-> 0, models |-> NoModels,
     settled |-> <<>>, running |-> {}, status |-> 0, embeddings |-> <<>>]

(***************************************************************************)
(* ClusterEngine: src/utils/clustering.ts.                                 *)
(* A vector is a tuple of integers.  Every vector the model uses has a     *)
(* norm that is a perfect square, and every eps is a multiple of 1/4, so   *)
(* Math.sqrt, the division and the comparison with eps are exact and the   *)
(* rational arithmetic below decides `distance <= eps` as the doubles do.  *)
(***************************************************************************)
EpsDen == 4

RECURSIVE Dot(_, _, _)
Dot(vecA, vecB, i) ==
    IF i > Len(vecA) THEN 0 ELSE vecA[i] * vecB[i] + Dot(vecA, vecB, i + 1)

\* Math.sqrt on a perfect square.
Sqrt(n) == CHOOSE k \in 0..n : k * k = n

\* cosineSimilarity: the quotient num/den, or the throw for unequal lengths.
cosineSimilarity(vecA, vecB) ==
    IF Len(vecA) # Len(vecB) THEN [throws |-> TRUE, num |-> 0, den |-> 1]
    ELSE LET dotProduct == Dot(vecA, vecB, 1)
             normA == Dot(vecA, vecA, 1)
             normB == Dot(vecB, vecB, 1)
             magnitude == Sqrt(normA) * Sqrt(normB)
         IN IF magnitude = 0 THEN [throws |-> FALSE, num |-> 0, den |-> 1]
            ELSE [throws |-> FALSE, num |-> dotProduct, den |-> magnitude]

\* cosineDistance: 1 - similarity.
cosineDistance(vecA, vecB) ==
    LET s == cosineSimilarity(vecA, vecB)
    IN [throws |-> s.throws, num |-> s.den - s.num, den |-> s.den]

\* `distance <= eps` for eps = epsNum / EpsDen (den is positive).
DistanceLeqEps(d, epsNum) == d.num * EpsDen <= epsNum * d.den

NumPoints(st) == Cardinality(DOMAIN st.embeddings)

\* Faulty variant: the neighbours do not start with the point itself.
RECURSIVE regionQueryFromWithoutSelf(_, _, _)
regionQueryFromWithoutSelf(st, pointIdx, i) ==
    IF i >= NumPoints(st) THEN <<>>
    ELSE IF DistanceLeqEps(cosineDistance(st.embeddings[pointIdx], st.embeddings[i]), st.eps)
              /\ i # pointIdx
         THEN <<i>> \o regionQueryFromWithoutSelf(st, pointIdx, i + 1)
         ELSE regionQueryFromWithoutSelf(st, pointIdx, i + 1)

\* The for loop of regionQuery from index i on.
RECURSIVE regionQueryFrom(_, _, _)
regionQueryFrom(st, pointIdx, i) ==
    IF i >= NumPoints(st) THEN <<>>
    ELSE IF i = pointIdx THEN regionQueryFrom(st, pointIdx, i + 1)
    ELSE IF DistanceLeqEps(cosineDistance(st.embeddings[pointIdx], st.embeddings[i]), st.eps)
         THEN <<i>> \o regionQueryFrom(st, pointIdx, i + 1)
         ELSE regionQueryFrom(st, pointIdx, i + 1)

regionQueryWithoutSelf(st, pointIdx) == regionQueryFromWithoutSelf(st, pointIdx, 0)

\* regionQuery: the point itself, then every other index within eps, ascending.
regionQuery(st, pointIdx) == <<pointIdx>> \o regionQueryFrom(st, pointIdx, 0)

\* Faulty variant: vectors of different lengths are compared without a throw.
regionQueryNeverThrows(st, pointIdx) == FALSE

\* regionQuery throws when cosineSimilarity does.
regionQueryThrows(st, pointIdx) ==
    \E i \in DOMAIN st.embeddings :
        i # pointIdx /\ Len(st.embeddings[i]) # Len(st.embeddings[pointIdx])

\* The state of a dbscan call right after `let clusterId = 0`; queries counts the
\* calls of regionQuery.
DbscanStart(embeddings, eps, minPts) ==
    [pc |-> "main", embeddings |-> embeddings, eps |-> eps, minPts |-> minPts,
     points |-> [idx \in DOMAIN embeddings |-> [visited |-> FALSE, clusterId |-> -1]],
     clusterId |-> 0, i |-> 0, neighbors |-> <<>>, n |-> 0, queries |-> 0,
     result |-> [clusters |-> <<>>, noise |-> <<>>]]

\* Faulty variant: each index is put in front of the array (unshift for push).
RECURSIVE IndicesFromUnshift(_, _, _)
IndicesFromUnshift(st, keep, i) ==
    IF i >= NumPoints(st) THEN <<>>
    ELSE IF i \in keep THEN IndicesFromUnshift(st, keep, i + 1) \o <<i>>
    ELSE IndicesFromUnshift(st, keep, i + 1)

\* The indices in 0..N-1 from i on, ascending, that are in keep: what the loop
\* `for (const point of points)` pushes to one array.
RECURSIVE IndicesFrom(_, _, _)
IndicesFrom(st, keep, i) ==
    IF i >= NumPoints(st) THEN <<>>
    ELSE IF i \in keep THEN <<i>> \o IndicesFrom(st, keep, i + 1)
    ELSE IndicesFrom(st, keep, i + 1)

\* Faulty variant: noise lists the points the main loop marked, reclaimed or not.
DbscanResultNoiseWhenMarked(st) ==
    LET InCluster(c) ==
            IndicesFrom(st, {i \in DOMAIN st.points : st.points[i].clusterId = c}, 0)
        clusters == [c \in 1..st.clusterId |-> InCluster(c - 1)]
        sparse == {i \in DOMAIN st.points : Len(regionQuery(st, i)) < st.minPts}
    IN [clusters |-> SelectSeq(clusters, LAMBDA cluster : Len(cluster) > 0),
        noise |-> IndicesFrom(st, sparse, 0)]

\* Faulty variant: the array of cluster id c is put in front of the earlier ones.
DbscanResultLatestFirst(st) ==
    LET InCluster(c) ==
            IndicesFrom(st, {i \in DOMAIN st.points : st.points[i].clusterId = c}, 0)
        clusters == [c \in 1..st.clusterId |-> InCluster(st.clusterId - c)]
    IN [clusters |-> SelectSeq(clusters, LAMBDA cluster : Len(cluster) > 0),
        noise |-> IndicesFrom(st, {i \in DOMAIN st.points : st.points[i].clusterId = -1}, 0)]

\* Lines 114-132: one array per cluster id and the noise array, filled in index
\* order, the empty arrays filtered out.
DbscanResult(st) ==
    LET InCluster(c) ==
            IndicesFrom(st, {i \in DOMAIN st.points : st.points[i].clusterId = c}, 0)
        clusters == [c \in 1..st.clusterId |-> InCluster(c - 1)]
    IN [clusters |-> SelectSeq(clusters, LAMBDA cluster : Len(cluster) > 0),
        noise |-> IndicesFrom(st, {i \in DOMAIN st.points : st.points[i].clusterId = -1}, 0)]

\* Faulty variant: a point one neighbour short of minPts starts a cluster.
MainStepOneShort(st) ==
    IF st.i >= NumPoints(st)
    THEN [st EXCEPT !.pc = "done", !.result = DbscanResult(st)]
    ELSE IF st.points[st.i].visited
    THEN [st EXCEPT !.i = st.i + 1]
    ELSE IF regionQueryThrows(st, st.i)
    THEN [st EXCEPT !.points[st.i].visited = TRUE, !.queries = @ + 1, !.pc = "thrown"]
    ELSE LET neighbors == regionQuery(st, st.i)
         IN IF Len(neighbors) < st.minPts - 1
            THEN [st EXCEPT !.points[st.i].visited = TRUE,
                            !.points[st.i].clusterId = -1,
                            !.queries = @ + 1,
                            !.i = st.i + 1]
            ELSE [st EXCEPT !.points[st.i].visited = TRUE,
                            !.points[st.i].clusterId = st.clusterId,
                            !.queries = @ + 1,
                            !.neighbors = neighbors,
                            !.n = 0,
                            !.pc = "expand"]

\* One iteration of the main loop (lines 97-112), up to the call of
\* expandCluster; after the last iteration, the result.
MainStep(st) ==
    IF st.i >= NumPoints(st)
    THEN [st EXCEPT !.pc = "done", !.result = DbscanResult(st)]
    ELSE IF st.points[st.i].visited
    THEN [st EXCEPT !.i = st.i + 1]
    ELSE IF regionQueryThrows(st, st.i)
    THEN [st EXCEPT !.points[st.i].visited = TRUE, !.queries = @ + 1, !.pc = "thrown"]
    ELSE LET neighbors == regionQuery(st, st.i)
         IN IF Len(neighbors) < st.minPts
            THEN [st EXCEPT !.points[st.i].visited = TRUE,
                            !.points[st.i].clusterId = -1,
                            !.queries = @ + 1,
                            !.i = st.i + 1]
            ELSE [st EXCEPT !.points[st.i].visited = TRUE,
                            !.points[st.i].clusterId = st.clusterId,
                            !.queries = @ + 1,
                            !.neighbors = neighbors,
                            !.n = 0,
                            !.pc = "expand"]

\* Faulty variant: only a neighbour visited for the first time gets the cluster id.
ExpandStepNoReclaim(st) ==
    IF st.n >= Len(st.neighbors)
    THEN [st EXCEPT !.pc = "main", !.clusterId = st.clusterId + 1, !.i = st.i + 1,
                    !.neighbors = <<>>, !.n = 0]
    ELSE LET neighborIdx == st.neighbors[st.n + 1]
             neighbor == st.points[neighborIdx]
         IN IF neighbor.visited
            THEN [st EXCEPT !.n = st.n + 1]
            ELSE IF regionQueryThrows(st, neighborIdx)
            THEN [st EXCEPT !.points[neighborIdx].visited = TRUE, !.pc = "thrown"]
            ELSE LET neighborNeighbors == regionQuery(st, neighborIdx)
                 IN [st EXCEPT !.points[neighborIdx].visited = TRUE,
                               !.points[neighborIdx].clusterId = st.clusterId,
                               !.neighbors = IF Len(neighborNeighbors) >= st.minPts
                                             THEN st.neighbors \o neighborNeighbors
                                             ELSE st.neighbors,
                               !.n = st.n + 1]

\* Faulty variant: the neighbours of a dense neighbour are not appended.
ExpandStepNoGrowth(st) ==
    IF st.n >= Len(st.neighbors)
    THEN [st EXCEPT !.pc = "main", !.clusterId = st.clusterId + 1, !.i = st.i + 1,
                    !.neighbors = <<>>, !.n = 0]
    ELSE LET neighborIdx == st.neighbors[st.n + 1]
             neighbor == st.points[neighborIdx]
             assigned == IF neighbor.clusterId = -1 THEN st.clusterId ELSE neighbor.clusterId
         IN [st EXCEPT !.points[neighborIdx].visited = TRUE,
                       !.points[neighborIdx].clusterId = assigned,
                       !.n = st.n + 1]

\* Faulty variant: the neighbours of a neighbour are appended when it is sparse.
ExpandStepGrowsWhenSparse(st) ==
    IF st.n >= Len(st.neighbors)
    THEN [st EXCEPT !.pc = "main", !.clusterId = st.clusterId + 1, !.i = st.i + 1,
                    !.neighbors = <<>>, !.n = 0]
    ELSE LET neighborIdx == st.neighbors[st.n + 1]
             neighbor == st.points[neighborIdx]
             assigned == IF neighbor.clusterId = -1 THEN st.clusterId ELSE neighbor.clusterId
         IN IF neighbor.visited
            THEN [st EXCEPT !.points[neighborIdx].clusterId = assigned,
                            !.n = st.n + 1]
            ELSE LET neighborNeighbors == regionQuery(st, neighborIdx)
                 IN [st EXCEPT !.points[neighborIdx].visited = TRUE,
                               !.points[neighborIdx].clusterId = assigned,
                               !.neighbors = IF Len(neighborNeighbors) < st.minPts
                                             THEN st.neighbors \o neighborNeighbors
                                             ELSE st.neighbors,
                               !.n = st.n + 1]

\* Faulty variant: every point of the work-list gets the id of the cluster.
ExpandStepReassigns(st) ==
    IF st.n >= Len(st.neighbors)
    THEN [st EXCEPT !.pc = "main", !.clusterId = st.clusterId + 1, !.i = st.i + 1,
                    !.neighbors = <<>>, !.n = 0]
    ELSE LET neighborIdx == st.neighbors[st.n + 1]
             neighbor == st.points[neighborIdx]
         IN IF neighbor.visited
            THEN [st EXCEPT !.points[neighborIdx].clusterId = st.clusterId,
                            !.n = st.n + 1]
            ELSE LET neighborNeighbors == regionQuery(st, neighborIdx)
                 IN [st EXCEPT !.points[neighborIdx].visited = TRUE,
                               !.points[neighborIdx].clusterId = st.clusterId,
                               !.neighbors = IF Len(neighborNeighbors) >= st.minPts
                                             THEN st.neighbors \o neighborNeighbors
                                             ELSE st.neighbors,
                               !.n = st.n + 1]

\* Faulty variant: a visited point of the work-list is expanded again.
ExpandStepExpandsVisited(st) ==
    IF st.n >= Len(st.neighbors)
    THEN [st EXCEPT !.pc = "main", !.clusterId = st.clusterId + 1, !.i = st.i + 1,
                    !.neighbors = <<>>, !.n = 0]
    ELSE LET neighborIdx == st.neighbors[st.n + 1]
             neighbor == st.points[neighborIdx]
             assigned == IF neighbor.clusterId = -1 THEN st.clusterId ELSE neighbor.clusterId
             neighborNeighbors == regionQuery(st, neighborIdx)
         IN [st EXCEPT !.points[neighborIdx].visited = TRUE,
                       !.points[neighborIdx].clusterId = assigned,
                       !.queries = @ + 1,
                       !.neighbors = IF Len(neighborNeighbors) >= st.minPts
                                     THEN st.neighbors \o neighborNeighbors
                                     ELSE st.neighbors,
                       !.n = st.n + 1]

\* One iteration of the while loop of expandCluster (lines 76-94); when the
\* work-list is exhausted, the return to the main loop and its clusterId++.
ExpandStep(st) ==
    IF st.n >= Len(st.neighbors)
    THEN [st EXCEPT !.pc = "main", !.clusterId = st.clusterId + 1, !.i = st.i + 1,
                    !.neighbors = <<>>, !.n = 0]
    ELSE LET neighborIdx == st.neighbors[st.n + 1]
             neighbor == st.points[neighborIdx]
             assigned == IF neighbor.clusterId = -1 THEN st.clusterId ELSE neighbor.clusterId
         IN IF neighbor.visited
            THEN [st EXCEPT !.points[neighborIdx].clusterId = assigned,
                            !.n = st.n + 1]
            ELSE IF regionQueryThrows(st, neighborIdx)
            THEN [st EXCEPT !.points[neighborIdx].visited = TRUE, !.queries = @ + 1,
                            !.pc = "thrown"]
            ELSE LET neighborNeighbors == regionQuery(st, neighborIdx)
                 IN [st EXCEPT !.points[neighborIdx].visited = TRUE,
                               !.points[neighborIdx].clusterId = assigned,
                               !.queries = @ + 1,
                               !.neighbors = IF Len(neighborNeighbors) >= st.minPts
                                             THEN st.neighbors \o neighborNeighbors
                                             ELSE st.neighbors,
                               !.n = st.n + 1]

\* dbscan from a state of the call to its return or throw.
RECURSIVE DbscanRun(_)
DbscanRun(st) ==
    IF st.pc = "main" THEN DbscanRun(MainStep(st))
    ELSE IF st.pc = "expand" THEN DbscanRun(ExpandStep(st))
    ELSE st

dbscan(embeddings, eps, minPts) == DbscanRun(DbscanStart(embeddings, eps, minPts))

DbIdle == [pc |-> "idle"]

\* The group-photos handler before a request has arrived.
GroupIdle ==
    [pc |-> "idle", body |-> <<>>, photos |-> <<>>, eps |-> 0, minPts |-> 0,
     sent |-> <<>>, fetched |-> FALSE, answer |-> <<>>, run |-> DbIdle,
     response |-> [status |-> 0]]

\* The handler with two module-level variables before any request: null is 0,
\* the processor and the model loaded by call c are 10c + 1 and 10c + 2, and
\* loads counts the calls of from_pretrained.
VariantIdle ==
    [imageProcessor |-> 0, visionModel |-> 0, loads |-> 0,
     calls |-> [c \in 1..NumCalls |->
                  [pc |-> "idle", constructed |-> FALSE, imageProcessor |-> 0,
                   visionModel |-> 0, status |-> 0]]]

\* The viewer page as mounted: useState([]), useState(0), useState(false).
ViewerIdle == [photos |-> <<>>, currentIndex |-> 0, isScanning |-> FALSE, scans |-> 0]

\* Best-pick before anything happens: the page's selectBestFromGroups (page), the
\* results page with its analyzeGroup (view), the handler that picks for a list
\* of groups (batch) and the best-pick handler with its module-level LLM client
\* (post).
PickIdle ==
    [page |-> [pc |-> "idle", groups |-> <<>>, i |-> 0, bestPhotoIds |-> <<>>,
               failures |-> <<>>, fetches |-> 0, alerted |-> FALSE],
     view |-> [pc |-> "idle", groups |-> <<>>, analyzingGroups |-> {},
               bestPhotoAnalyses |-> <<>>, alerts |-> <<>>],
     batch |-> [pc |-> "idle", isArray |-> TRUE, groups |-> <<>>, i |-> 0,
                results |-> <<>>, fetches |-> 0, response |-> [status |-> 0]],
     post |-> [pc |-> "idle", body |-> <<>>, photoPaths |-> <<>>, resizing |-> FALSE,
               client |-> FALSE, calls |-> 0, content |-> <<>>,
               response |-> [status |-> 0]]]

(***************************************************************************)
(* The generate-embeddings handler, one action per run-to-completion step. *)
(***************************************************************************)
\* POST: validation throws; the catch answers 400.
PostReject(r) ==
    /\ r \in cfg.reqs
    /\ req[r].pc = "idle"
    /\ \E body \in Bodies(cfg.rawPaths, cfg.maxLen) :
          /\ ~validatePhotoPaths(body, maxCount, maxLength).ok
          /\ req' = [req EXCEPT ![r].pc = "done", ![r].status = 400]
    /\ UNCHANGED <<cfg, modelCache, promises, db, other, grp, pick, variant, viewer>>

\* POST: validation passes and initializeModel runs up to its await or return.
PostInitialize(r) ==
    /\ r \in cfg.reqs
    /\ req[r].pc = "idle"
    /\ \E body \in Bodies(cfg.rawPaths, cfg.maxLen) :
          LET v == validatePhotoPaths(body, maxCount, maxLength)
              m == initializeModel(modelCache, promises)
          IN /\ v.ok
             /\ modelCache' = m.cache
             /\ promises' = m.promises
             /\ req' = [req EXCEPT ![r].photoPaths = v.value,
                                   ![r].awaits = m.awaits,
                                   ![r].models = m.value,
                                   ![r].pc = IF m.awaits = 0 THEN "gotModels" ELSE "initWait"]
    /\ UNCHANGED <<cfg, db, other, grp, pick, variant, viewer>>

\* AutoProcessor.from_pretrained of initialization id ends.  (Once Promise.all has
\* rejected, it drops the result of the call still running, which reaches no
\* variable: that completion is left out.)
LoadProcessor(id) ==
    /\ id \in 1..Len(promises)
    /\ PromiseAllState(promises[id]) = "pending"
    /\ promises[id].processor = "loading"
    /\ \E res \in {"loaded", "failed"} :
          promises' = [promises EXCEPT ![id].processor = res]
    /\ UNCHANGED <<cfg, modelCache, req, db, other, grp, pick, variant, viewer>>

\* CLIPVisionModelWithProjection.from_pretrained of initialization id ends.
LoadModel(id) ==
    /\ id \in 1..Len(promises)
    /\ PromiseAllState(promises[id]) = "pending"
    /\ promises[id].model = "loading"
    /\ \E res \in {"loaded", "failed"} :
          promises' = [promises EXCEPT ![id].model = res]
    /\ UNCHANGED <<cfg, modelCache, req, db, other, grp, pick, variant, viewer>>

\* Faulty variant: the closure resumes only when both loads succeeded, so a failed
\* construction leaves its promise pending.
InitializationContinueOnSuccess(id) ==
    /\ id \in 1..Len(promises)
    /\ promises[id].state = "pending"
    /\ PromiseAllState(promises[id]) = "fulfilled"
    /\ LET s == InitializationSettled(modelCache, promises[id], id)
       IN /\ modelCache' = s.cache
          /\ promises' = [promises EXCEPT ![id].state = s.state]
    /\ UNCHANGED <<cfg, req, db, other, grp, pick, variant, viewer>>

\* The initialization closure resumes after Promise.all has settled.
InitializationContinue(id) ==
    /\ id \in 1..Len(promises)
    /\ promises[id].state = "pending"
    /\ PromiseAllState(promises[id]) # "pending"
    /\ LET s == InitializationSettled(modelCache, promises[id], id)
       IN /\ modelCache' = s.cache
          /\ promises' = [promises EXCEPT ![id].state = s.state]
    /\ UNCHANGED <<cfg, req, db, other, grp, pick, variant, viewer>>

\* initializeModel resumes after `await initializationPromise` and returns or throws.
InitializeReturn(r) ==
    /\ req[r].pc = "initWait"
    /\ promises[req[r].awaits].state # "pending"
    /\ req' = [req EXCEPT ![r].models = AwaitedValue(promises, modelCache, req[r].awaits),
                          ![r].pc = "gotModels"]
    /\ UNCHANGED <<cfg, modelCache, promises, db, other, grp, pick, variant, viewer>>

\* POST resumes with the rejection of initializeModel: the outer catch answers 500.
PostInitFailed(r) ==
    /\ req[r].pc = "gotModels"
    /\ ~req[r].models.ok
    /\ req' = [req EXCEPT ![r].pc = "done", ![r].status = 500]
    /\ UNCHANGED <<cfg, modelCache, promises, db, other, grp, pick, variant, viewer>>

\* POST resumes with the models and maps the callback over photoPaths: each
\* callback runs up to its first await, so the paths existsSync does not find
\* settle at once (`missing`), the others are left running.
PostMap(r) ==
    /\ req[r].pc = "gotModels"
    /\ req[r].models.ok
    /\ \E missing \in SUBSET (1..Len(req[r].photoPaths)) :
          req' = [req EXCEPT ![r].settled = SettledInMap(req[r].photoPaths, missing, 1),
                             ![r].running = (1..Len(req[r].photoPaths)) \ missing,
                             ![r].pc = "batch"]
    /\ UNCHANGED <<cfg, modelCache, promises, db, other, grp, pick, variant, viewer>>

\* generateImageEmbedding of item i returns its vector or throws; the callback
\* returns the entry.
EmbeddingDone(r, i) ==
    /\ req[r].pc = "batch"
    /\ i \in req[r].running
    /\ \E outcome \in {"ok", "failed"} :
          req' = [req EXCEPT ![r].settled =
                                 Append(@, EmbeddingEntry(i, req[r].photoPaths[i], outcome)),
                             ![r].running = @ \ {i}]
    /\ UNCHANGED <<cfg, modelCache, promises, db, other, grp, pick, variant, viewer>>

\* Promise.all has settled: POST answers with the embeddings.
PostRespond(r) ==
    /\ req[r].pc = "batch"
    /\ req[r].running = {}
    /\ LET res == PostResponse(req[r].settled, Len(req[r].photoPaths))
       IN req' = [req EXCEPT ![r].embeddings = res.embeddings,
                             ![r].status = res.status,
                             ![r].pc = "done"]
    /\ UNCHANGED <<cfg, modelCache, promises, db, other, grp, pick, variant, viewer>>

Reqs == 1..NumReqs

InitCommon ==
    /\ variant = VariantIdle
    /\ viewer = ViewerIdle
    /\ modelCache = [imageProcessor |-> 0, visionModel |-> 0, initializationPromise |-> 0]
    /\ promises = <<>>
    /\ req = [r \in Reqs |-> IdleReq]
    /\ db = DbIdle
    /\ other = DbIdle
    /\ grp = GroupIdle
    /\ pick = PickIdle

\* Many concurrent requests, each with a list of at most one path.
Init ==
    /\ cfg = [reqs |-> Reqs, rawPaths |-> {Str(<<"a">>, 0), Str(<<" ">>, 0)}, maxLen |-> 1]
    /\ InitCommon

\* One request with a list of up to MaxPaths paths.
InitBatch ==
    /\ cfg = [reqs |-> {1}, rawPaths |-> RawPaths, maxLen |-> MaxPaths]
    /\ InitCommon

Next ==
    \/ \E r \in Reqs : PostReject(r)
    \/ \E r \in Reqs : PostInitialize(r)
    \/ \E id \in 1..NumReqs : LoadProcessor(id)
    \/ \E id \in 1..NumReqs : LoadModel(id)
    \/ \E id \in 1..NumReqs : InitializationContinue(id)
    \/ \E r \in Reqs : InitializeReturn(r)
    \/ \E r \in Reqs : PostInitFailed(r)
    \/ \E r \in Reqs : PostMap(r)
    \/ \E r \in Reqs : \E i \in 1..MaxPaths : EmbeddingDone(r, i)
    \/ \E r \in Reqs : PostRespond(r)

Spec == Init /\ [][Next]_vars

\* Every from_pretrained call ends, and the event loop resumes every continuation
\* whose awaited promise has settled.
SpecAcquire ==
    /\ Spec
    /\ \A id \in 1..NumReqs :
          /\ WF_vars(LoadProcessor(id))
          /\ WF_vars(LoadModel(id))
          /\ WF_vars(InitializationContinue(id))
    /\ \A r \in Reqs : WF_vars(InitializeReturn(r))

SpecBatch == InitBatch /\ [][Next]_vars

(***************************************************************************)
(* dbscan, step by step and as a whole.                                    *)
(***************************************************************************)
\* The embeddings the model clusters.  At eps = 1 (similarity >= 0) the first two
\* are apart and each of the next three is within eps of both but of none of the
\* other two; <<4, 3, 0>> is within 1/4 of <<1, 0, 0>> only; the zero vector has
\* similarity 0 to everything.
Vectors ==
    << <<1, 0, 0>>, <<-1, 0, 0>>, <<0, 1, 0>>, <<0, -3, 4>>, <<0, -3, -4>>,
       <<4, 3, 0>>, <<0, 0, 0>> >>

VectorSet == { Vectors[k] : k \in 1..Len(Vectors) }

\* eps as a multiple of 1/EpsDen: 0, the default 0.25, and 1.
EpsValues == {0, 1, EpsDen}

Inputs(maxN) == UNION { [0..(k - 1) -> VectorSet] : k \in 1..maxN }

NoCfg == [reqs |-> {}, rawPaths |-> {}, maxLen |-> 0]

InitDbscan ==
    /\ variant = VariantIdle
    /\ viewer = ViewerIdle
    /\ cfg = NoCfg
    /\ modelCache = [imageProcessor |-> 0, visionModel |-> 0, initializationPromise |-> 0]
    /\ promises = <<>>
    /\ req = [r \in Reqs |-> IdleReq]
    /\ \E embeddings \in Inputs(MaxN), eps \in EpsValues, minPts \in 1..MaxMinPts :
          db = DbscanStart(embeddings, eps, minPts)
    /\ other = DbIdle
    /\ grp = GroupIdle
    /\ pick = PickIdle

\* One iteration of the main loop of dbscan, or its return.
DbscanMain ==
    /\ db.pc = "main"
    /\ db' = MainStep(db)
    /\ UNCHANGED <<cfg, modelCache, promises, req, other, grp, pick, variant, viewer>>

\* One iteration of the loop of expandCluster, or its return.
ExpandCluster ==
    /\ db.pc = "expand"
    /\ db' = ExpandStep(db)
    /\ UNCHANGED <<cfg, modelCache, promises, req, other, grp, pick, variant, viewer>>

NextDbscan == DbscanMain \/ ExpandCluster

SpecDbscan == InitDbscan /\ [][NextDbscan]_vars

\* dbscan is synchronous code: a loop that can take its next iteration takes it.
SpecDbscanFair == SpecDbscan /\ WF_vars(NextDbscan)

\* The embeddings of SpecReorder (clustered at eps = 1, where they are not all
\* apart) and the place of each in the catalogue.
ReorderVectors == { Vectors[k] : k \in 1..(Len(Vectors) - 2) }

Rank(v) == CHOOSE k \in 1..Len(Vectors) : Vectors[k] = v

\* Where point i of the input is once the input is arranged in catalogue order
\* (equal embeddings keep their order).
Arranged(embeddings, i) ==
    Cardinality({ j \in DOMAIN embeddings :
                    \/ Rank(embeddings[j]) < Rank(embeddings[i])
                    \/ Rank(embeddings[j]) = Rank(embeddings[i]) /\ j < i })

\* The same embeddings in catalogue order.  Every input is a reordering of its
\* arrangement, so two reorderings of one input are both compared with the same
\* arrangement.
Arrangement(embeddings) ==
    [p \in DOMAIN embeddings |->
        embeddings[CHOOSE i \in DOMAIN embeddings : Arranged(embeddings, i) = p]]

InitReorder ==
    /\ variant = VariantIdle
    /\ viewer = ViewerIdle
    /\ cfg = NoCfg
    /\ modelCache = [imageProcessor |-> 0, visionModel |-> 0, initializationPromise |-> 0]
    /\ promises = <<>>
    /\ req = [r \in Reqs |-> IdleReq]
    /\ \E embeddings \in UNION { [0..(k - 1) -> ReorderVectors] : k \in 1..PermN },
          eps \in {EpsDen}, minPts \in 1..MaxMinPts :
          db = [pc |-> "call", embeddings |-> embeddings, eps |-> eps, minPts |-> minPts]
    /\ other = DbIdle
    /\ grp = GroupIdle
    /\ pick = PickIdle

\* dbscan is called on the input.
DbscanCall ==
    /\ db.pc = "call"
    /\ db' = dbscan(db.embeddings, db.eps, db.minPts)
    /\ UNCHANGED <<cfg, modelCache, promises, req, other, grp, pick, variant, viewer>>

\* dbscan is called on the same embeddings in catalogue order.
DbscanCallReordered ==
    /\ db.pc = "done"
    /\ other = DbIdle
    /\ other' = dbscan(Arrangement(db.embeddings), db.eps, db.minPts)
    /\ UNCHANGED <<cfg, modelCache, promises, req, db, grp, pick, variant, viewer>>

NextReorder == DbscanCall \/ DbscanCallReordered

SpecReorder == InitReorder /\ [][NextReorder]_vars

\* dbscan step by step on the inputs of SpecReorder, where a point can be within
\* eps of core points of two clusters.
InitExpand ==
    /\ variant = VariantIdle
    /\ viewer = ViewerIdle
    /\ cfg = NoCfg
    /\ modelCache = [imageProcessor |-> 0, visionModel |-> 0, initializationPromise |-> 0]
    /\ promises = <<>>
    /\ req = [r \in Reqs |-> IdleReq]
    /\ \E embeddings \in UNION { [0..(k - 1) -> ReorderVectors] : k \in 1..PermN },
          minPts \in 1..MaxMinPts :
          db = DbscanStart(embeddings, EpsDen, minPts)
    /\ other = DbIdle
    /\ grp = GroupIdle
    /\ pick = PickIdle

SpecExpand == InitExpand /\ [][NextDbscan]_vars

(***************************************************************************)
(* GroupAssembler: the group-photos handler and the validators it calls.   *)
(* A JavaScript value that is not an array is a type and, for a number,    *)
(* the quotient num/den; den = 0 stands for Infinity (JSON.parse("1e999")).*)
(***************************************************************************)
MaxPhotos == 3      \* longest photos list sent to the group-photos handler

JsValue(type, num, den) == [type |-> type, num |-> num, den |-> den]

Undefined == JsValue("undefined", 0, 1)

JsNull == JsValue("null", 0, 1)

Num(num, den) == JsValue("number", num, den)

Infinity == JsValue("number", 1, 0)

AString == JsValue("string", 0, 1)

\* a ?? b
NullishCoalesce(a, b) == IF a.type \in {"undefined", "null"} THEN b ELSE a

\* validateEps: the number it returns or the ValidationError it throws.
validateEps(eps) ==
    IF eps.type # "number"
    THEN [ok |-> FALSE, value |-> eps, error |-> "eps must be a number", field |-> "eps"]
    ELSE IF eps.den = 0
    THEN [ok |-> FALSE, value |-> eps, error |-> "eps must be a finite number", field |-> "eps"]
    ELSE IF eps.num < 0 \/ eps.num > eps.den
    THEN [ok |-> FALSE, value |-> eps, error |-> "eps must be between 0 and 1", field |-> "eps"]
    ELSE [ok |-> TRUE, value |-> eps, error |-> "", field |-> ""]

\* Number.isInteger
IsInteger(v) == v.type = "number" /\ v.den # 0 /\ v.num % v.den = 0

\* Faulty variant: the integer check is missing.
validateMinPtsAnyNumber(minPts) ==
    IF minPts.type # "number"
    THEN [ok |-> FALSE, value |-> minPts, error |-> "minPts must be a number",
          field |-> "minPts"]
    ELSE IF minPts.den = 0 \/ minPts.num < minPts.den \/ minPts.num > 100 * minPts.den
    THEN [ok |-> FALSE, value |-> minPts, error |-> "minPts must be between 1 and 100",
          field |-> "minPts"]
    ELSE [ok |-> TRUE, value |-> minPts, error |-> "", field |-> ""]

\* validateMinPts: the number it returns or the ValidationError it throws.
validateMinPts(minPts) ==
    IF minPts.type # "number"
    THEN [ok |-> FALSE, value |-> minPts, error |-> "minPts must be a number",
          field |-> "minPts"]
    ELSE IF ~IsInteger(minPts)
    THEN [ok |-> FALSE, value |-> minPts, error |-> "minPts must be an integer",
          field |-> "minPts"]
    ELSE IF minPts.num < minPts.den \/ minPts.num > 100 * minPts.den
    THEN [ok |-> FALSE, value |-> minPts, error |-> "minPts must be between 1 and 100",
          field |-> "minPts"]
    ELSE [ok |-> TRUE, value |-> minPts, error |-> "", field |-> ""]

\* An element of body.photos: an object with an id and a path, or no object.
Photo(id, path) == [isObject |-> TRUE, id |-> id, path |-> path]

NotAnObject == [isObject |-> FALSE, id |-> 0, path |-> NotAString]

\* The first check of validatePhotosArray's loop that fails for the element, ""
\* when none does.  (There is no length check and the path is not trimmed.)
PhotoError(photo) ==
    IF ~photo.isObject THEN "must be an object"
    ELSE IF photo.path.type # "string" THEN "must have a string 'path' property"
    ELSE IF StrLength(Trim(photo.path)) = 0 THEN "has empty path"
    ELSE IF IncludesNul(photo.path) THEN "has invalid path"
    ELSE ""

\* validatePhotosArray: the photos as they came or the ValidationError.
validatePhotosArray(photos, maxCnt) ==
    IF ~photos.isArray
    THEN [ok |-> FALSE, value |-> <<>>, error |-> "Photos must be an array", field |-> "photos"]
    ELSE IF ArrayLength(photos) = 0
    THEN [ok |-> FALSE, value |-> <<>>, error |-> "Photos array cannot be empty",
          field |-> "photos"]
    ELSE IF ArrayLength(photos) > maxCnt
    THEN [ok |-> FALSE, value |-> <<>>, error |-> "Too many photos", field |-> "photos"]
    ELSE IF \E i \in 1..Len(photos.items) : PhotoError(photos.items[i]) # ""
    THEN LET i == CHOOSE j \in 1..Len(photos.items) :
                      /\ PhotoError(photos.items[j]) # ""
                      /\ \A k \in 1..(j - 1) : PhotoError(photos.items[k]) = ""
         IN [ok |-> FALSE, value |-> <<>>, error |-> PhotoError(photos.items[i]),
             field |-> "photos"]
    ELSE [ok |-> TRUE, value |-> photos.items, error |-> "", field |-> ""]

\* Lines 16-18: the three validations in order; the first that throws decides.
GroupValidation(body) ==
    LET photos == validatePhotosArray(body.photos, maxCount)
        eps == validateEps(NullishCoalesce(body.eps, Num(1, 4)))
        minPts == validateMinPts(NullishCoalesce(body.minPts, Num(2, 1)))
    IN IF ~photos.ok THEN [ok |-> FALSE, error |-> photos.error, field |-> photos.field,
                           photos |-> <<>>, eps |-> eps.value, minPts |-> minPts.value]
       ELSE IF ~eps.ok THEN [ok |-> FALSE, error |-> eps.error, field |-> eps.field,
                             photos |-> <<>>, eps |-> eps.value, minPts |-> minPts.value]
       ELSE IF ~minPts.ok THEN [ok |-> FALSE, error |-> minPts.error, field |-> minPts.field,
                                photos |-> <<>>, eps |-> eps.value, minPts |-> minPts.value]
       ELSE [ok |-> TRUE, error |-> "", field |-> "",
             photos |-> photos.value, eps |-> eps.value, minPts |-> minPts.value]

\* The vectors the embeddings response holds in the grouping model: the second is
\* within 1/4 of the first, the third is apart from both, the fourth is shorter.
GroupVectors == { <<1, 0, 0>>, <<4, 3, 0>>, <<-1, 0, 0>>, <<1, 0>> }

\* One entry of the embeddings response: the vector extracted, or null and the
\* error when the extraction threw (outcome null).
GroupEntry(path, outcome) ==
    IF outcome = Null
    THEN [path |-> path, embedding |-> Null, error |-> <<"extraction failed">>]
    ELSE [path |-> path, embedding |-> outcome, error |-> Null]

\* What the generate-embeddings handler can answer to the request the grouping
\* handler sends it: 400 when its validatePhotoPaths throws, 500 when
\* initializeModel throws, else one entry per trimmed path, in order.
EmbeddingsAnswers(sent) ==
    LET v == validatePhotoPaths(sent, maxCount, maxLength)
        n == Len(v.value)
    IN IF ~v.ok THEN { [status |-> 400, embeddings |-> <<>>] }
       ELSE { [status |-> 500, embeddings |-> <<>>] }
            \cup { [status |-> 200,
                    embeddings |-> [i \in 1..n |-> GroupEntry(v.value[i], outcome[i])]] :
                   outcome \in [1..n -> GroupVectors \cup {Null}] }

\* photos.find(p => p.path === path), as the list of what it finds: the first
\* photo with that path, or nothing (undefined).
Find(photos, path) ==
    IF \E k \in 1..Len(photos) : photos[k].path = path
    THEN << photos[CHOOSE k \in 1..Len(photos) :
                      /\ photos[k].path = path
                      /\ \A j \in 1..(k - 1) : photos[j].path # path] >>
    ELSE <<>>

\* indices.map(idx => photos.find(... entries[idx].path)).filter(Boolean)
RECURSIVE PhotosOf(_, _, _)
PhotosOf(photos, entries, indices) ==
    IF indices = <<>> THEN <<>>
    ELSE Find(photos, entries[Head(indices) + 1].path)
             \o PhotosOf(photos, entries, Tail(indices))

RECURSIVE SumOfLengths(_)
SumOfLengths(groups) ==
    IF groups = <<>> THEN 0 ELSE Len(Head(groups)) + SumOfLengths(Tail(groups))

\* eps as dbscan's model takes it: the numerator over EpsDen.
EpsNumerator(eps) == (eps.num * EpsDen) \div eps.den

\* Faulty variant: the check for an empty list of vectors is missing, so dbscan
\* runs on no points.
GroupResponseNoShortCircuit(photos, eps, minPts, embeddings) ==
    LET validEmbeddings == SelectSeq(embeddings, LAMBDA e : e.embedding # Null)
        failedEmbeddings == SelectSeq(embeddings, LAMBDA e : e.embedding = Null)
        n == Len(validEmbeddings)
        run == dbscan([i \in 0..(n - 1) |-> validEmbeddings[i + 1].embedding],
                      EpsNumerator(eps), minPts.num \div minPts.den)
        photoGroups == [k \in 1..Len(run.result.clusters) |->
                           PhotosOf(photos, validEmbeddings, run.result.clusters[k])]
        ungroupedPhotos ==
            PhotosOf(photos, validEmbeddings, run.result.noise)
                \o PhotosOf(photos, failedEmbeddings,
                            [k \in 1..Len(failedEmbeddings) |-> k - 1])
    IN [status |-> 200, run |-> run, groups |-> photoGroups, ungrouped |-> ungroupedPhotos,
        embeddings |-> [i \in 1..n |-> [path |-> validEmbeddings[i].path,
                                        embedding |-> validEmbeddings[i].embedding]],
        stats |-> [totalPhotos |-> Len(photos), groupCount |-> Len(photoGroups),
                   ungroupedCount |-> Len(ungroupedPhotos),
                   avgGroupSize |-> [num |-> SumOfLengths(photoGroups),
                                     den |-> Len(photoGroups)]]]

\* Lines 39-97: what the handler answers once it has the embeddings, and the
\* dbscan call it made (DbIdle: none).  A throw of dbscan reaches the outer
\* catch, which answers 500.
GroupResponse(photos, eps, minPts, embeddings) ==
    LET validEmbeddings == SelectSeq(embeddings, LAMBDA e : e.embedding # Null)
        failedEmbeddings == SelectSeq(embeddings, LAMBDA e : e.embedding = Null)
        n == Len(validEmbeddings)
        run == dbscan([i \in 0..(n - 1) |-> validEmbeddings[i + 1].embedding],
                      EpsNumerator(eps), minPts.num \div minPts.den)
        photoGroups == [k \in 1..Len(run.result.clusters) |->
                           PhotosOf(photos, validEmbeddings, run.result.clusters[k])]
        ungroupedPhotos ==
            PhotosOf(photos, validEmbeddings, run.result.noise)
                \o PhotosOf(photos, failedEmbeddings,
                            [k \in 1..Len(failedEmbeddings) |-> k - 1])
    IN IF n = 0
       THEN [status |-> 200, run |-> DbIdle, groups |-> <<>>, ungrouped |-> photos,
             embeddings |-> <<>>,
             stats |-> [totalPhotos |-> Len(photos), groupCount |-> 0,
                        ungroupedCount |-> Len(photos),
                        avgGroupSize |-> [num |-> 0, den |-> 0]]]
       ELSE IF run.pc = "thrown"
       THEN [status |-> 500, run |-> run, groups |-> <<>>, ungrouped |-> <<>>,
             embeddings |-> <<>>,
             stats |-> [totalPhotos |-> 0, groupCount |-> 0, ungroupedCount |-> 0,
                        avgGroupSize |-> [num |-> 0, den |-> 0]]]
       ELSE [status |-> 200, run |-> run, groups |-> photoGroups,
             ungrouped |-> ungroupedPhotos,
             embeddings |-> [i \in 1..n |-> [path |-> validEmbeddings[i].path,
                                             embedding |-> validEmbeddings[i].embedding]],
             stats |-> [totalPhotos |-> Len(photos), groupCount |-> Len(photoGroups),
                        ungroupedCount |-> Len(ungroupedPhotos),
                        avgGroupSize |-> [num |-> SumOfLengths(photoGroups),
                                          den |-> Len(photoGroups)]]]

\* createErrorResponse and its status.
ErrorResponse(status, field) == [status |-> status, field |-> field]

\* The paths of the photos of the grouping model: two plain ones, one with a
\* leading blank, one longer than maxLength, one with a null byte, a blank one,
\* and a path that is no string.
GroupRawPaths ==
    { Str(<<"a">>, 0), Str(<<"b">>, 0), Str(<<" ", "a">>, 0), Str(<<"a">>, maxLength),
      Str(<<"a", "NUL">>, 0), Str(<<" ">>, 0), NotAString }

PhotoLists ==
    { [isArray |-> TRUE, extra |-> 0,
       items |-> [k \in 1..Len(s) |-> Photo(k, s[k])]] : s \in SeqsUpTo(GroupRawPaths, MaxPhotos) }
      \cup { [isArray |-> TRUE, extra |-> 0, items |-> <<NotAnObject>>],
             [isArray |-> FALSE, extra |-> 0, items |-> <<>>],
             [isArray |-> TRUE, extra |-> maxCount + 1, items |-> <<>>] }

EpsInputs ==
    { Undefined, JsNull, AString, Infinity,
      Num(-1, 4), Num(0, 1), Num(1, 4), Num(1, 1), Num(5, 4) }

MinPtsInputs ==
    { Undefined, JsNull, AString, Infinity,
      Num(0, 1), Num(1, 1), Num(2, 1), Num(3, 2), Num(100, 1), Num(101, 1) }

GroupBodies ==
    { [photos |-> photos, eps |-> eps, minPts |-> minPts] :
        photos \in PhotoLists, eps \in EpsInputs, minPts \in MinPtsInputs }

\* A request has arrived at the group-photos handler.
GroupArrived == [GroupIdle EXCEPT !.pc = "arrived"]

\* POST: a validation throws; the catch answers 400.
GroupReject ==
    /\ grp.pc = "arrived"
    /\ \E body \in GroupBodies :
          LET v == GroupValidation(body)
          IN /\ ~v.ok
             /\ grp' = [grp EXCEPT !.pc = "done", !.body = body,
                                   !.response = ErrorResponse(400, v.field)]
    /\ UNCHANGED <<cfg, modelCache, promises, req, db, other, pick, variant, viewer>>

\* POST: the validations pass and the request for the embeddings is sent.
GroupFetch ==
    /\ grp.pc = "arrived"
    /\ \E body \in GroupBodies :
          LET v == GroupValidation(body)
          IN /\ v.ok
             /\ grp' = [grp EXCEPT !.pc = "fetch", !.body = body,
                                   !.photos = v.photos, !.eps = v.eps, !.minPts = v.minPts,
                                   !.fetched = TRUE,
                                   !.sent = [isArray |-> TRUE, extra |-> 0,
                                             items |-> [k \in 1..Len(v.photos) |->
                                                           v.photos[k].path]]]
    /\ UNCHANGED <<cfg, modelCache, promises, req, db, other, pick, variant, viewer>>

\* The embeddings response is not ok: POST throws and the catch answers 500.
GroupFetchFailed ==
    /\ grp.pc = "fetch"
    /\ \E answer \in EmbeddingsAnswers(grp.sent) :
          /\ answer.status # 200
          /\ grp' = [grp EXCEPT !.pc = "done", !.response = ErrorResponse(500, "")]
    /\ UNCHANGED <<cfg, modelCache, promises, req, db, other, pick, variant, viewer>>

\* The embeddings arrive: POST clusters them and answers.
GroupRespond ==
    /\ grp.pc = "fetch"
    /\ \E answer \in EmbeddingsAnswers(grp.sent) :
          /\ answer.status = 200
          /\ LET res == GroupResponse(grp.photos, grp.eps, grp.minPts, answer.embeddings)
             IN grp' = [grp EXCEPT !.pc = "done", !.run = res.run, !.response = res,
                                   !.answer = answer.embeddings]
    /\ UNCHANGED <<cfg, modelCache, promises, req, db, other, pick, variant, viewer>>

InitGroup ==
    /\ variant = VariantIdle
    /\ viewer = ViewerIdle
    /\ cfg = NoCfg
    /\ modelCache = [imageProcessor |-> 0, visionModel |-> 0, initializationPromise |-> 0]
    /\ promises = <<>>
    /\ req = [r \in Reqs |-> IdleReq]
    /\ db = DbIdle
    /\ other = DbIdle
    /\ grp = GroupArrived
    /\ pick = PickIdle

NextGroup == GroupReject \/ GroupFetch \/ GroupFetchFailed \/ GroupRespond

SpecGroup == InitGroup /\ [][NextGroup]_vars

(***************************************************************************)
(* BestPickOrchestrator: the best-pick handler (POST, analyzePhotosWithLLM) *)
(* and the page's selectBestFromGroups / selectBestPhoto.                  *)
(***************************************************************************)
MaxPick == 2        \* longest photoPaths list and largest group of best-pick
MaxGroups == 2      \* most groups the page selects from
MaxAlerts == 2      \* most failed analyses the results page is taken through

pickMaxCount == 10

NaN == JsValue("number", 0, 0)

\* What the scorer's message can hold.  content null, a text without braces, or
\* braces that JSON.parse rejects; else the parsed object `analysis`: its photos
\* (missing, a string, or a list of entries) and its bestPhotoIndex (missing or
\* an integer).  An entry of the list is an object with the scores, an object
\* without them, null, or a number.
ScoreObject ==
    [kind |-> "object", finalScore |-> Num(85, 1), sharpness |-> Num(80, 1),
     brightness |-> Num(90, 1), composition |-> Num(70, 1), faceScore |-> Num(60, 1)]

EmptyObject ==
    [kind |-> "object", finalScore |-> Undefined, sharpness |-> Undefined,
     brightness |-> Undefined, composition |-> Undefined, faceScore |-> Undefined]

NullEntry == [EmptyObject EXCEPT !.kind = "null"]

NumberEntry == [EmptyObject EXCEPT !.kind = "primitive"]

UndefinedEntry == [EmptyObject EXCEPT !.kind = "undefined"]

ScorerPhotos(n) ==
    { [kind |-> "missing", items |-> <<>>],
      [kind |-> "string", items |-> [k \in 1..n |-> NumberEntry]] }
      \cup { [kind |-> "list", items |-> s] :
               s \in UNION { [1..k -> {ScoreObject, EmptyObject, NullEntry, NumberEntry}] :
                             k \in (n - 1)..n } }

ScorerContents(n) ==
    { [kind |-> k, photos |-> [kind |-> "missing", items |-> <<>>],
       bestPhotoIndex |-> Undefined] : k \in {"null", "text", "badjson"} }
      \cup { [kind |-> "json", photos |-> photos, bestPhotoIndex |-> best] :
               photos \in ScorerPhotos(n),
               best \in {Undefined} \cup { Num(b, 1) : b \in (-1)..n } }

\* analysis.photos[index] (index from 0); undefined past the end.
PhotoAnalysis(photos, index) ==
    IF index < Len(photos.items) THEN photos.items[index + 1] ELSE UndefinedEntry

\* a + b of two numbers or undefined
Plus(a, b) ==
    IF a.type # "number" \/ b.type # "number" \/ a.den = 0 \/ b.den = 0 THEN NaN
    ELSE Num(a.num * b.den + b.num * a.den, a.den * b.den)

\* a / 3
DivideBy3(a) == IF a.den = 0 THEN a ELSE Num(a.num, a.den * 3)

\* x || 0 for a number or undefined
OrZero(x) == IF x.type # "number" \/ x.den = 0 \/ x.num = 0 THEN Num(0, 1) ELSE x

\* Lines 138-156: one element of allPhotos.
AllPhotosEntry(photoPath, photoAnalysis) ==
    [path |-> photoPath,
     finalScore |-> photoAnalysis.finalScore,
     imageQuality |-> [sharpness |-> photoAnalysis.sharpness,
                       brightness |-> photoAnalysis.brightness,
                       composition |-> photoAnalysis.composition],
     faceQuality |-> [faceScore |-> OrZero(photoAnalysis.faceScore)]]

NoBestPhoto == [path |-> NotAString, finalScore |-> Undefined,
                imageQualityScore |-> Undefined, faceQualityScore |-> Undefined]

\* createErrorResponse: the answer of the catch of POST.
PickFailed(status, error) ==
    [status |-> status, error |-> error, bestPhoto |-> NoBestPhoto, allPhotos |-> <<>>]

\* Faulty variant: content that cannot be parsed falls back to the first photo.
AnalysisResultFallback(photoPaths, content) ==
    IF content.kind # "json"
    THEN [status |-> 200, error |-> "",
          bestPhoto |-> [path |-> photoPaths[1], finalScore |-> Undefined,
                         imageQualityScore |-> Undefined, faceQualityScore |-> Undefined],
          allPhotos |-> <<>>]
    ELSE PickFailed(500, "TypeError")

\* Lines 131-171 and the handler's catch: what POST answers to the scorer's
\* message.  A throw (no content, no JSON, a property read of undefined or
\* null) reaches the catch of POST, which answers 500.
AnalysisResult(photoPaths, content) ==
    LET n == Len(photoPaths)
        failed == PickFailed(500, "TypeError")
    IN IF content.kind = "null" THEN PickFailed(500, "No response from LLM")
       ELSE IF content.kind = "text"
       THEN PickFailed(500, "Could not parse JSON from LLM response")
       ELSE IF content.kind = "badjson" THEN PickFailed(500, "SyntaxError")
       ELSE IF content.photos.kind = "missing" THEN failed
       ELSE IF \E k \in 1..n :
                  PhotoAnalysis(content.photos, k - 1).kind \in {"undefined", "null"}
       THEN failed
       ELSE LET allPhotos == [k \in 1..n |->
                                 AllPhotosEntry(photoPaths[k],
                                                PhotoAnalysis(content.photos, k - 1))]
                best == content.bestPhotoIndex
            IN IF best.type # "number" \/ best.num < 0 \/ best.num >= n
               THEN failed
               ELSE LET bestPhoto == allPhotos[best.num + 1]
                    IN [status |-> 200, error |-> "",
                        bestPhoto |->
                            [path |-> bestPhoto.path,
                             finalScore |-> bestPhoto.finalScore,
                             imageQualityScore |->
                                 DivideBy3(Plus(Plus(bestPhoto.imageQuality.sharpness,
                                                     bestPhoto.imageQuality.brightness),
                                                bestPhoto.imageQuality.composition)),
                             faceQualityScore |-> bestPhoto.faceQuality.faceScore],
                        allPhotos |-> allPhotos]


\* The bodies sent to the best-pick handler: lists of up to MaxPick paths, a value
\* that is no array, and lists of 11 and of 1001 paths.
PickRawPaths ==
    { Str(<<"a">>, 0), Str(<<"b">>, 0), Str(<<" ", "a">>, 0), Str(<<"a">>, maxLength),
      Str(<<"a", "NUL">>, 0), NotAString }

PickBodies ==
    Bodies(PickRawPaths, MaxPick)
        \cup { [isArray |-> TRUE, items |-> <<>>, extra |-> pickMaxCount + 1] }

\* A request has arrived at the best-pick handler.
PostArrived == [PickIdle EXCEPT !.post.pc = "arrived"]

\* Faulty variant: the images are prepared before the list is validated.
BestRejectAfterResize ==
    /\ pick.post.pc = "arrived"
    /\ \E body \in PickBodies :
          /\ ~validatePhotoPaths(body, pickMaxCount, maxLength).ok
          /\ pick' = [pick EXCEPT !.post.pc = "done", !.post.body = body,
                                  !.post.resizing = TRUE,
                                  !.post.response = PickFailed(400, "validation")]
    /\ UNCHANGED <<cfg, modelCache, promises, req, db, other, grp, variant, viewer>>

\* POST: validatePhotoPaths throws; the catch answers 400.
BestReject ==
    /\ pick.post.pc = "arrived"
    /\ \E body \in PickBodies :
          /\ ~validatePhotoPaths(body, pickMaxCount, maxLength).ok
          /\ pick' = [pick EXCEPT !.post.pc = "done", !.post.body = body,
                                  !.post.response = PickFailed(400, "validation")]
    /\ UNCHANGED <<cfg, modelCache, promises, req, db, other, grp, variant, viewer>>

\* POST: the list is valid; analyzePhotosWithLLM starts resizing the images.
BestResize ==
    /\ pick.post.pc = "arrived"
    /\ \E body \in PickBodies :
          LET v == validatePhotoPaths(body, pickMaxCount, maxLength)
          IN /\ v.ok
             /\ pick' = [pick EXCEPT !.post.pc = "resize", !.post.body = body,
                                     !.post.photoPaths = v.value,
                                     !.post.resizing = TRUE]
    /\ UNCHANGED <<cfg, modelCache, promises, req, db, other, grp, variant, viewer>>

\* sharp rejects for one of the images: Promise.all rejects, the catch answers 500.
BestResizeFailed ==
    /\ pick.post.pc = "resize"
    /\ pick' = [pick EXCEPT !.post.pc = "done", !.post.response = PickFailed(500, "sharp")]
    /\ UNCHANGED <<cfg, modelCache, promises, req, db, other, grp, variant, viewer>>

\* createLLMClient throws (no key configured): the catch answers 500.
BestClientFailed ==
    /\ pick.post.pc = "resize"
    /\ ~pick.post.client
    /\ pick' = [pick EXCEPT !.post.pc = "done", !.post.response = PickFailed(500, "createLLMClient")]
    /\ UNCHANGED <<cfg, modelCache, promises, req, db, other, grp, variant, viewer>>

\* The images are ready: getLLMClient, then the one request to the scorer.
BestScore ==
    /\ pick.post.pc = "resize"
    /\ pick' = [pick EXCEPT !.post.pc = "scoring", !.post.client = TRUE,
                            !.post.calls = @ + 1]
    /\ UNCHANGED <<cfg, modelCache, promises, req, db, other, grp, variant, viewer>>

\* The scorer call rejects (transport error): the catch answers 500.
BestScorerFailed ==
    /\ pick.post.pc = "scoring"
    /\ pick' = [pick EXCEPT !.post.pc = "done", !.post.response = PickFailed(500, "create")]
    /\ UNCHANGED <<cfg, modelCache, promises, req, db, other, grp, variant, viewer>>

\* The scorer answers: POST answers with the result or, on a throw, 500.
BestAnswer ==
    /\ pick.post.pc = "scoring"
    /\ \E content \in ScorerContents(Len(pick.post.photoPaths)) :
          pick' = [pick EXCEPT !.post.pc = "done", !.post.content = content,
                               !.post.response = AnalysisResult(pick.post.photoPaths, content)]
    /\ UNCHANGED <<cfg, modelCache, promises, req, db, other, grp, variant, viewer>>

\* The groups the page selects from: up to MaxGroups groups of 1..MaxPick photos.
PickGroup(g) ==
    { [k \in 1..Len(s) |-> Photo(10 * g + k, s[k])] :
        s \in SeqsUpTo({Str(<<"a">>, 0), Str(<<"b">>, 0)}, MaxPick) \ {<<>>} }

PickGroups ==
    UNION { { gs \in [1..n -> UNION { PickGroup(g) : g \in 1..MaxGroups }] :
                \A g \in 1..n : gs[g] \in PickGroup(g) } : n \in 1..MaxGroups }

\* What the page's request can be answered: not ok, or a body whose bestPhoto is
\* missing or has one of these paths.
PickAnswers ==
    { [ok |-> FALSE, hasBest |-> FALSE, path |-> NotAString, overallScore |-> Undefined],
      [ok |-> TRUE, hasBest |-> FALSE, path |-> NotAString, overallScore |-> Undefined] }
      \cup { [ok |-> TRUE, hasBest |-> TRUE, path |-> p, overallScore |-> Num(70, 1)] :
               p \in {Str(<<"a">>, 0), Str(<<"b">>, 0), Str(<<"c">>, 0)} }

\* selectBestFromGroups, one iteration up to its await: a group of one photo
\* gives its photo; for any other group selectBestPhoto sends the request.
SelectNext ==
    /\ pick.page.pc = "loop"
    /\ pick.page.i < Len(pick.page.groups)
    /\ LET group == pick.page.groups[pick.page.i + 1]
       IN IF Len(group) = 1
          THEN pick' = [pick EXCEPT !.page.bestPhotoIds = Append(@, group[1].id),
                                    !.page.i = @ + 1]
          ELSE pick' = [pick EXCEPT !.page.pc = "fetch", !.page.fetches = @ + 1]
    /\ UNCHANGED <<cfg, modelCache, promises, req, db, other, grp, variant, viewer>>

\* Faulty variant: a failure ends the loop.
SelectAnswerAborts ==
    /\ pick.page.pc = "fetch"
    /\ \E answer \in PickAnswers :
          LET group == pick.page.groups[pick.page.i + 1]
              found == IF answer.ok /\ answer.hasBest THEN Find(group, answer.path) ELSE <<>>
          IN IF found # <<>>
             THEN pick' = [pick EXCEPT !.page.bestPhotoIds = Append(@, found[1].id),
                                       !.page.i = @ + 1, !.page.pc = "loop"]
             ELSE pick' = [pick EXCEPT !.page.failures = Append(@, pick.page.i),
                                       !.page.i = Len(pick.page.groups),
                                       !.page.pc = "loop"]
    /\ UNCHANGED <<cfg, modelCache, promises, req, db, other, grp, variant, viewer>>

\* selectBestPhoto resumes with the response: it returns the photo with the
\* path of bestPhoto, or throws, and the loop records the failure.
SelectAnswer ==
    /\ pick.page.pc = "fetch"
    /\ \E answer \in PickAnswers :
          LET group == pick.page.groups[pick.page.i + 1]
              found == IF answer.ok /\ answer.hasBest THEN Find(group, answer.path) ELSE <<>>
          IN IF found # <<>>
             THEN pick' = [pick EXCEPT !.page.bestPhotoIds = Append(@, found[1].id),
                                       !.page.i = @ + 1, !.page.pc = "loop"]
             ELSE pick' = [pick EXCEPT !.page.failures = Append(@, pick.page.i),
                                       !.page.i = @ + 1, !.page.pc = "loop"]
    /\ UNCHANGED <<cfg, modelCache, promises, req, db, other, grp, variant, viewer>>

\* The loop is over: the alert when a group failed, and the return.
SelectReturn ==
    /\ pick.page.pc = "loop"
    /\ pick.page.i >= Len(pick.page.groups)
    /\ pick' = [pick EXCEPT !.page.pc = "done",
                            !.page.alerted = (Len(pick.page.failures) > 0)]
    /\ UNCHANGED <<cfg, modelCache, promises, req, db, other, grp, variant, viewer>>

\* The lists of groups sent to the handler that picks for several groups: up to
\* MaxGroups groups of 0..MaxPick photos.
BatchGroups ==
    UNION { { gs \in [1..n -> UNION { PickGroup(g) \cup {<<>>} : g \in 1..MaxGroups }] :
                \A g \in 1..n : gs[g] \in PickGroup(g) \cup {<<>>} } : n \in 0..MaxGroups }

\* One element of results: a winner (bestPhotoId 0 stands for undefined) or an error.
BatchWinner(groupIndex, id, photoPath, score) ==
    [groupId |-> groupIndex, error |-> FALSE, bestPhotoId |-> id,
     bestPhotoPath |-> photoPath, score |-> score]

BatchError(groupIndex) ==
    [groupId |-> groupIndex, error |-> TRUE, bestPhotoId |-> 0,
     bestPhotoPath |-> NotAString, score |-> Undefined]

BatchArrived == [PickIdle EXCEPT !.batch.pc = "arrived"]

\* photoGroups is missing or no array: 400.
BatchReject ==
    /\ pick.batch.pc = "arrived"
    /\ pick' = [pick EXCEPT !.batch.pc = "done", !.batch.isArray = FALSE,
                            !.batch.response = [status |-> 400]]
    /\ UNCHANGED <<cfg, modelCache, promises, req, db, other, grp, variant, viewer>>

\* photoGroups is an array: the loop starts.
BatchAccept ==
    /\ pick.batch.pc = "arrived"
    /\ \E groups \in BatchGroups :
          pick' = [pick EXCEPT !.batch.pc = "loop", !.batch.groups = groups]
    /\ UNCHANGED <<cfg, modelCache, promises, req, db, other, grp, variant, viewer>>

\* Faulty variant: a group of one photo is analysed like the others.
BatchNextAlwaysAsks ==
    /\ pick.batch.pc = "loop"
    /\ pick.batch.i < Len(pick.batch.groups)
    /\ LET group == pick.batch.groups[pick.batch.i + 1]
       IN IF Len(group) = 0
          THEN pick' = [pick EXCEPT !.batch.i = @ + 1]
          ELSE pick' = [pick EXCEPT !.batch.pc = "fetch", !.batch.fetches = @ + 1]
    /\ UNCHANGED <<cfg, modelCache, promises, req, db, other, grp, variant, viewer>>

\* One iteration up to its await: an empty group is skipped, a group of one
\* photo gives that photo with score 100, any other group is sent for analysis.
BatchNext ==
    /\ pick.batch.pc = "loop"
    /\ pick.batch.i < Len(pick.batch.groups)
    /\ LET group == pick.batch.groups[pick.batch.i + 1]
       IN IF Len(group) = 0
          THEN pick' = [pick EXCEPT !.batch.i = @ + 1]
          ELSE IF Len(group) = 1
          THEN pick' = [pick EXCEPT
                           !.batch.results =
                               Append(@, BatchWinner(pick.batch.i, group[1].id,
                                                     group[1].path, Num(100, 1))),
                           !.batch.i = @ + 1]
          ELSE pick' = [pick EXCEPT !.batch.pc = "fetch", !.batch.fetches = @ + 1]
    /\ UNCHANGED <<cfg, modelCache, promises, req, db, other, grp, variant, viewer>>

\* The iteration resumes with the response: a result with the best photo, or a
\* throw that the catch of the iteration turns into an error result.
BatchAnswer ==
    /\ pick.batch.pc = "fetch"
    /\ \E answer \in PickAnswers :
          LET group == pick.batch.groups[pick.batch.i + 1]
              found == Find(group, answer.path)
              result == IF answer.ok /\ answer.hasBest
                        THEN BatchWinner(pick.batch.i,
                                         IF found = <<>> THEN 0 ELSE found[1].id,
                                         answer.path, answer.overallScore)
                        ELSE BatchError(pick.batch.i)
          IN pick' = [pick EXCEPT !.batch.results = Append(@, result),
                                  !.batch.i = @ + 1, !.batch.pc = "loop"]
    /\ UNCHANGED <<cfg, modelCache, promises, req, db, other, grp, variant, viewer>>

\* The loop is over: 200 with the results.
BatchReturn ==
    /\ pick.batch.pc = "loop"
    /\ pick.batch.i >= Len(pick.batch.groups)
    /\ pick' = [pick EXCEPT !.batch.pc = "done", !.batch.response = [status |-> 200]]
    /\ UNCHANGED <<cfg, modelCache, promises, req, db, other, grp, variant, viewer>>

\* The results page shows some groups; no group has an analysis yet.
ViewOpen(groups) ==
    [PickIdle EXCEPT !.view.pc = "open", !.view.groups = groups,
                     !.view.bestPhotoAnalyses = [g \in 1..Len(groups) |-> Null]]

\* analyzeGroup up to its await, from the button of a group that has no analysis
\* and is not being analysed; for a group of one photo analyzeGroup returns at once.
AnalyzeStart(g) ==
    /\ pick.view.pc = "open"
    /\ g \in 1..Len(pick.view.groups)
    /\ Len(pick.view.groups[g]) # 1
    /\ g \notin pick.view.analyzingGroups
    /\ pick.view.bestPhotoAnalyses[g] = Null
    /\ Len(pick.view.alerts) < MaxAlerts
    /\ pick' = [pick EXCEPT !.view.analyzingGroups = @ \cup {g}]
    /\ UNCHANGED <<cfg, modelCache, promises, req, db, other, grp, variant, viewer>>

\* analyzeGroup resumes with the response: the analysis is stored under the
\* group's index, or the error is alerted; either way the group is no longer
\* being analysed.
AnalyzeAnswer(g) ==
    /\ pick.view.pc = "open"
    /\ g \in pick.view.analyzingGroups
    /\ \E answer \in PickAnswers :
          IF answer.ok
          THEN pick' = [pick EXCEPT !.view.bestPhotoAnalyses[g] = <<answer>>,
                                    !.view.analyzingGroups = @ \ {g}]
          ELSE pick' = [pick EXCEPT !.view.alerts = Append(@, g - 1),
                                    !.view.analyzingGroups = @ \ {g}]
    /\ UNCHANGED <<cfg, modelCache, promises, req, db, other, grp, variant, viewer>>

\* The page selects from some groups, or a request arrives at one of the handlers.
InitPick ==
    /\ variant = VariantIdle
    /\ viewer = ViewerIdle
    /\ cfg = NoCfg
    /\ modelCache = [imageProcessor |-> 0, visionModel |-> 0, initializationPromise |-> 0]
    /\ promises = <<>>
    /\ req = [r \in Reqs |-> IdleReq]
    /\ db = DbIdle
    /\ other = DbIdle
    /\ grp = GroupIdle
    /\ \/ pick = PostArrived
       \/ pick = BatchArrived
       \/ \E groups \in PickGroups : pick = ViewOpen(groups)
       \/ \E groups \in PickGroups :
             pick = [PickIdle EXCEPT !.page.pc = "loop", !.page.groups = groups]

\* The steps of the best-pick handler.
NextPost ==
    \/ BestReject
    \/ BestResize
    \/ BestResizeFailed
    \/ BestClientFailed
    \/ BestScore
    \/ BestScorerFailed
    \/ BestAnswer

NextPick ==
    \/ NextPost
    \/ SelectNext
    \/ SelectAnswer
    \/ SelectReturn
    \/ BatchReject
    \/ BatchAccept
    \/ BatchNext
    \/ BatchAnswer
    \/ BatchReturn
    \/ \E g \in 1..MaxGroups : AnalyzeStart(g)
    \/ \E g \in 1..MaxGroups : AnalyzeAnswer(g)

SpecPick == InitPick /\ [][NextPick]_vars

\* Requests arrive at one of the three entry points: two at the embeddings
\* handler, or one at the group-photos handler, or one at the best-pick handler.
InitApi ==
    /\ variant = VariantIdle
    /\ viewer = ViewerIdle
    /\ modelCache = [imageProcessor |-> 0, visionModel |-> 0, initializationPromise |-> 0]
    /\ promises = <<>>
    /\ req = [r \in Reqs |-> IdleReq]
    /\ db = DbIdle
    /\ other = DbIdle
    /\ \/ cfg = [reqs |-> {1, 2}, rawPaths |-> RawPaths, maxLen |-> 1]
          /\ grp = GroupIdle /\ pick = PickIdle
       \/ cfg = NoCfg /\ grp = GroupArrived /\ pick = PickIdle
       \/ cfg = NoCfg /\ grp = GroupIdle /\ pick = PostArrived

NextApi == Next \/ NextGroup \/ NextPost

SpecApi == InitApi /\ [][NextApi]_vars

(***************************************************************************)
(* The embeddings handler whose initializeModel keeps the processor and    *)
(* the model in two module-level variables.                                *)
(***************************************************************************)
\* POST: photoPaths is missing or no array: 400.
VariantReject(c) ==
    /\ variant.calls[c].pc = "idle"
    /\ variant' = [variant EXCEPT !.calls[c].pc = "done", !.calls[c].status = 400]
    /\ UNCHANGED <<cfg, modelCache, promises, req, db, other, grp, pick, viewer>>

\* POST calls initializeModel, which runs up to its first await or, when both
\* variables are set, returns them.
VariantInitialize(c) ==
    /\ variant.calls[c].pc = "idle"
    /\ IF variant.imageProcessor = 0 \/ variant.visionModel = 0
       THEN variant' = [variant EXCEPT !.loads = @ + 1,
                                       !.calls[c].pc = "processor",
                                       !.calls[c].constructed = TRUE]
       ELSE variant' = [variant EXCEPT !.calls[c].pc = "mapping",
                                       !.calls[c].imageProcessor = variant.imageProcessor,
                                       !.calls[c].visionModel = variant.visionModel]
    /\ UNCHANGED <<cfg, modelCache, promises, req, db, other, grp, pick, viewer>>

\* AutoProcessor.from_pretrained resolves: the processor is stored and the
\* load of the model starts.
VariantProcessorLoaded(c) ==
    /\ variant.calls[c].pc = "processor"
    /\ variant' = [variant EXCEPT !.imageProcessor = 10 * c + 1,
                                  !.loads = @ + 1,
                                  !.calls[c].pc = "model"]
    /\ UNCHANGED <<cfg, modelCache, promises, req, db, other, grp, pick, viewer>>

\* A from_pretrained rejects: initializeModel throws and the catch of POST
\* answers 500.
VariantLoadFailed(c) ==
    /\ variant.calls[c].pc \in {"processor", "model"}
    /\ variant' = [variant EXCEPT !.calls[c].pc = "done", !.calls[c].status = 500]
    /\ UNCHANGED <<cfg, modelCache, promises, req, db, other, grp, pick, viewer>>

\* CLIPVisionModelWithProjection.from_pretrained resolves: the model is stored
\* and initializeModel returns the two variables as they are now.
VariantModelLoaded(c) ==
    /\ variant.calls[c].pc = "model"
    /\ variant' = [variant EXCEPT !.visionModel = 10 * c + 2,
                                  !.calls[c].pc = "mapping",
                                  !.calls[c].imageProcessor = variant.imageProcessor,
                                  !.calls[c].visionModel = 10 * c + 2]
    /\ UNCHANGED <<cfg, modelCache, promises, req, db, other, grp, pick, viewer>>

\* The embeddings are extracted with the pair returned and POST answers 200.
VariantRespond(c) ==
    /\ variant.calls[c].pc = "mapping"
    /\ variant' = [variant EXCEPT !.calls[c].pc = "done", !.calls[c].status = 200]
    /\ UNCHANGED <<cfg, modelCache, promises, req, db, other, grp, pick, viewer>>

InitVariant ==
    /\ cfg = NoCfg
    /\ modelCache = [imageProcessor |-> 0, visionModel |-> 0, initializationPromise |-> 0]
    /\ promises = <<>>
    /\ req = [r \in Reqs |-> IdleReq]
    /\ db = DbIdle
    /\ other = DbIdle
    /\ grp = GroupIdle
    /\ pick = PickIdle
    /\ variant = VariantIdle
    /\ viewer = ViewerIdle

NextVariant ==
    \/ \E c \in 1..NumCalls : VariantReject(c)
    \/ \E c \in 1..NumCalls : VariantInitialize(c)
    \/ \E c \in 1..NumCalls : VariantProcessorLoaded(c)
    \/ \E c \in 1..NumCalls : VariantLoadFailed(c)
    \/ \E c \in 1..NumCalls : VariantModelLoaded(c)
    \/ \E c \in 1..NumCalls : VariantRespond(c)

SpecVariant == InitVariant /\ [][NextVariant]_vars

(***************************************************************************)
(* The photo viewer page: handleFolderSelected, handleNext, handlePrevious.*)
(***************************************************************************)
\* What a folder scan can return: up to MaxViewed photos, numbered from 1.
ScannedPhotos ==
    { [k \in 1..Len(s) |-> [id |-> k, path |-> s[k]]] :
        s \in SeqsUpTo({"a", "b"}, MaxViewed) }

\* handleFolderSelected up to its await.
ScanStart ==
    /\ ~viewer.isScanning
    /\ viewer.scans < MaxScans
    /\ viewer' = [viewer EXCEPT !.isScanning = TRUE, !.scans = @ + 1]
    /\ UNCHANGED <<cfg, modelCache, promises, req, db, other, grp, pick, variant>>

\* The scan answers with its photos (none when data.photos is missing).
ScanAnswer ==
    /\ viewer.isScanning
    /\ \E photos \in ScannedPhotos :
          viewer' = [viewer EXCEPT !.photos = photos, !.isScanning = FALSE]
    /\ UNCHANGED <<cfg, modelCache, promises, req, db, other, grp, pick, variant>>

\* The scan fails: the alert, and the photos stay.
ScanFailed ==
    /\ viewer.isScanning
    /\ viewer' = [viewer EXCEPT !.isScanning = FALSE]
    /\ UNCHANGED <<cfg, modelCache, promises, req, db, other, grp, pick, variant>>

handleNext ==
    /\ viewer.currentIndex < Len(viewer.photos) - 1
    /\ viewer' = [viewer EXCEPT !.currentIndex = @ + 1]
    /\ UNCHANGED <<cfg, modelCache, promises, req, db, other, grp, pick, variant>>

handlePrevious ==
    /\ viewer.currentIndex > 0
    /\ viewer' = [viewer EXCEPT !.currentIndex = @ - 1]
    /\ UNCHANGED <<cfg, modelCache, promises, req, db, other, grp, pick, variant>>

InitViewer == InitVariant

NextViewer == ScanStart \/ ScanAnswer \/ ScanFailed \/ handleNext \/ handlePrevious

SpecViewer == InitViewer /\ [][NextViewer]_vars

(***************************************************************************)
(* BestPickOrchestrator properties (specification SpecPick).               *)
(***************************************************************************)
\* The iteration about to run is for a group of exactly one photo.
BatchAtSingleton ==
    /\ pick.batch.pc = "loop"
    /\ pick.batch.i < Len(pick.batch.groups)
    /\ Len(pick.batch.groups[pick.batch.i + 1]) = 1

PageAtSingleton ==
    /\ pick.page.pc = "loop"
    /\ pick.page.i < Len(pick.page.groups)
    /\ Len(pick.page.groups[pick.page.i + 1]) = 1

IndexResolves(content, n) ==
    /\ content.kind = "json"
    /\ content.bestPhotoIndex.type = "number"
    /\ content.bestPhotoIndex.num >= 0
    /\ content.bestPhotoIndex.num < n

\* The scorer's per-photo list is a list of objects, one for each of the n photos.
ListWellFormed(content, n) ==
    /\ content.kind = "json"
    /\ content.photos.kind = "list"
    /\ Len(content.photos.items) >= n
    /\ \A k \in 1..n : content.photos.items[k].kind = "object"

\* C20: whenever best-pick returns a winner for a group, the winner's path is
\* one of the paths submitted for that group, and a scorer response whose best
\* index does not resolve to a submitted path or whose per-photo list is
\* malformed or shorter than the submitted list gives an error, never a winner.
WinnerIsSubmitted ==
    /\ (pick.post.pc = "done" /\ pick.post.response.status = 200) =>
          /\ \E k \in 1..Len(pick.post.photoPaths) :
                pick.post.response.bestPhoto.path = pick.post.photoPaths[k]
          /\ IndexResolves(pick.post.content, Len(pick.post.photoPaths))
          /\ ListWellFormed(pick.post.content, Len(pick.post.photoPaths))
    /\ \A j \in 1..Len(pick.page.bestPhotoIds) :
          \E g \in 1..Len(pick.page.groups) :
             \E k \in 1..Len(pick.page.groups[g]) :
                pick.page.groups[g][k].id = pick.page.bestPhotoIds[j]

\* The ids of the photos of a group.
IdsOf(group) == { group[k].id : k \in 1..Len(group) }

\* C21: a scorer failure for one group is recorded as that group's failure
\* only.  In selectBestFromGroups every group processed so far has given either
\* one winner from that group or one recorded failure, a failure does not stop
\* the loop, and at the return winners plus failures equal the groups; the
\* handler that picks for a list of groups has one result, winner or error, for
\* every group with photos; in the results page the answer for one group
\* changes that group's entry alone.
FailureIsPerGroup ==
    /\ [](/\ Len(pick.page.bestPhotoIds) + Len(pick.page.failures) = pick.page.i
          /\ \A j \in 1..Len(pick.page.failures) :
                /\ pick.page.failures[j] < pick.page.i
                /\ \A k \in 1..Len(pick.page.failures) :
                      j < k => pick.page.failures[j] < pick.page.failures[k]
          /\ pick.page.pc = "done" => pick.page.i = Len(pick.page.groups)
          /\ Len(pick.batch.results)
                = Cardinality({ g \in 1..pick.batch.i : Len(pick.batch.groups[g]) > 0 })
          /\ pick.batch.pc = "done" /\ pick.batch.isArray =>
                pick.batch.i = Len(pick.batch.groups))
    /\ [][ /\ pick'.page.i # pick.page.i =>
                 /\ pick'.page.i = pick.page.i + 1
                 /\ \/ /\ pick'.page.failures = Append(pick.page.failures, pick.page.i)
                       /\ pick'.page.bestPhotoIds = pick.page.bestPhotoIds
                    \/ /\ pick'.page.failures = pick.page.failures
                       /\ \E id \in IdsOf(pick.page.groups[pick.page.i + 1]) :
                             pick'.page.bestPhotoIds = Append(pick.page.bestPhotoIds, id)
           /\ \A g \in 1..Len(pick.view.groups) :
                 pick'.view.bestPhotoAnalyses[g] # pick.view.bestPhotoAnalyses[g] =>
                    /\ g \in pick.view.analyzingGroups
                    /\ pick'.view.alerts = pick.view.alerts
                    /\ pick'.view.analyzingGroups = pick.view.analyzingGroups \ {g}
                    /\ \A h \in 1..Len(pick.view.groups) :
                          h # g => pick'.view.bestPhotoAnalyses[h]
                                     = pick.view.bestPhotoAnalyses[h]
           /\ pick'.view.alerts # pick.view.alerts =>
                 /\ \E g \in pick.view.analyzingGroups :
                       /\ pick'.view.alerts = Append(pick.view.alerts, g - 1)
                       /\ pick'.view.analyzingGroups = pick.view.analyzingGroups \ {g}
                 /\ pick'.view.bestPhotoAnalyses = pick.view.bestPhotoAnalyses ]_vars

\* selectBestFromGroups has returned for two groups of two photos: the first
\* failed and the second still gave its winner.
FailureIsPerGroupWitness ==
    /\ pick.page.pc = "done"
    /\ Len(pick.page.groups) = 2
    /\ pick.page.fetches = 2
    /\ pick.page.failures = <<0>>
    /\ Len(pick.page.bestPhotoIds) = 1
    /\ pick.page.bestPhotoIds[1] \in IdsOf(pick.page.groups[2])

\* C22: the best-pick entry point answers a photoPaths list that is empty or
\* has more than 10 items with 400 without calling the scorer, and answers a
\* scorer failure on a valid list (the call rejects, or the content is null,
\* holds no JSON object or does not parse) with 500 and no winner.
BoundsAndScorerFailures ==
    pick.post.pc = "done" =>
       /\ (/\ pick.post.body.isArray
           /\ ArrayLength(pick.post.body) = 0 \/ ArrayLength(pick.post.body) > 10) =>
             /\ pick.post.response.status = 400
             /\ pick.post.calls = 0
       /\ (/\ pick.post.calls = 1
           /\ IF pick.post.content = <<>> THEN TRUE
              ELSE pick.post.content.kind \in {"null", "text", "badjson"}) =>
             /\ pick.post.response.status = 500
             /\ pick.post.response.bestPhoto = NoBestPhoto

\* A list of 11 paths was answered 400.
BoundsAndScorerFailuresWitness ==
    /\ pick.post.pc = "done"
    /\ pick.post.body.isArray
    /\ ArrayLength(pick.post.body) = pickMaxCount + 1
    /\ pick.post.response.status = 400
    /\ pick.post.calls = 0

(***************************************************************************)
(* Validation before work (specification SpecApi).                         *)
(***************************************************************************)
\* C17: a request that is rejected with a validation error causes no work.  In
\* the embeddings, grouping and best-pick entry points the step that answers
\* 400 is the request's first step; it leaves the cache and the constructions
\* in flight unchanged, and the rejected request has awaited no construction,
\* extracted no embedding, sent no request for embeddings, run no dbscan,
\* prepared no image and called no scorer; once rejected it does nothing more.
RejectedCausesNoWork ==
    [][ /\ \A r \in Reqs :
              /\ (req[r].status # 400 /\ req'[r].status = 400) =>
                    /\ req[r].pc = "idle"
                    /\ modelCache' = modelCache
                    /\ promises' = promises
                    /\ req'[r].awaits = 0
                    /\ req'[r].models = NoModels
                    /\ req'[r].running = {}
                    /\ req'[r].settled = <<>>
                    /\ req'[r].embeddings = <<>>
              /\ req[r].status = 400 => req'[r] = req[r]
        /\ (grp.response.status # 400 /\ grp'.response.status = 400) =>
              /\ grp.pc = "arrived"
              /\ modelCache' = modelCache
              /\ promises' = promises
              /\ ~grp'.fetched
              /\ grp'.run = DbIdle
        /\ grp.response.status = 400 => grp' = grp
        /\ (pick.post.response.status # 400 /\ pick'.post.response.status = 400) =>
              /\ pick.post.pc = "arrived"
              /\ modelCache' = modelCache
              /\ promises' = promises
              /\ ~pick'.post.resizing
              /\ ~pick'.post.client
              /\ pick'.post.calls = 0
        /\ pick.post.response.status = 400 => pick'.post = pick.post ]_vars

\* One request to the embeddings handler was rejected while the construction
\* started by the other is in flight.
RejectedCausesNoWorkWitness ==
    /\ req[1].status = 400
    /\ req[2].pc \notin {"idle", "done"}
    /\ modelCache.initializationPromise # 0
    /\ modelCache.visionModel = 0

(***************************************************************************)
(* EmbeddingCache properties (specification Spec).                         *)
(***************************************************************************)
CacheStateOf(mc) ==
    IF mc.imageProcessor # 0 /\ mc.visionModel # 0 THEN "Ready"
    ELSE IF mc.initializationPromise # 0 THEN "Initializing"
    ELSE "Uninitialized"

CacheState == CacheStateOf(modelCache)

WithState(s) == { id \in 1..Len(promises) : promises[id].state = s }

\* initializeModel has returned or thrown in request r.
Returned(r) == req[r].pc \in {"gotModels", "batch", "done"} /\ req[r].status # 400

SameOutcomePerConstruction ==
    /\ \A r \in Reqs :
          Returned(r) /\ req[r].awaits # 0 =>
              /\ promises[req[r].awaits].state = "fulfilled" =>
                    req[r].models = [ok |-> TRUE, imageProcessor |-> req[r].awaits,
                                     visionModel |-> req[r].awaits]
              /\ promises[req[r].awaits].state = "rejected" => ~req[r].models.ok
              /\ req[r].pc = "done" =>
                    req[r].status = IF req[r].models.ok THEN 200 ELSE 500
    /\ \A r1, r2 \in Reqs :
          Returned(r1) /\ Returned(r2) /\ req[r1].awaits # 0
              /\ req[r1].awaits = req[r2].awaits
              => req[r1].models = req[r2].models

SameOutcomeWitness ==
    \E r1, r2, r3 \in Reqs :
        /\ r1 # r2
        /\ Returned(r1) /\ Returned(r2) /\ Returned(r3)
        /\ req[r1].awaits # 0 /\ req[r1].awaits = req[r2].awaits
        /\ ~req[r1].models.ok /\ ~req[r2].models.ok
        /\ req[r3].models.ok

\* Request r enters initializeModel in this step.
Enters(r) == req[r].pc = "idle" /\ req'[r].pc \in {"initWait", "gotModels"}

\* A step of the cache around a failure: the failing construction, the next
\* entry into initializeModel, a later success.
FailureStep ==
    /\ \A id \in 1..Len(promises) :
          promises[id].state = "pending" /\ promises'[id].state = "rejected" =>
              /\ modelCache'.initializationPromise = 0
              /\ modelCache'.imageProcessor = 0 /\ modelCache'.visionModel = 0
              /\ CacheStateOf(modelCache') = "Uninitialized"
    /\ \A r \in Reqs :
          Enters(r) /\ WithState("rejected") # {} /\ CacheState = "Uninitialized" =>
              /\ Len(promises') = Len(promises) + 1
              /\ promises'[Len(promises')].state = "pending"
              /\ req'[r].awaits = Len(promises')
              /\ req'[r].pc = "initWait"
              /\ CacheStateOf(modelCache') = "Initializing"
    /\ \A id \in 1..Len(promises) :
          promises[id].state = "pending" /\ promises'[id].state = "fulfilled"
              /\ WithState("rejected") # {}
              => CacheStateOf(modelCache') = "Ready"

\* C3: a failing construction leaves the cache Uninitialized (promise cleared, no
\* handle stored); the next caller after a failure starts a fresh construction
\* instead of getting the old failure; and a construction that succeeds makes the
\* cache Ready.
FailureIsNotCached == [][FailureStep]_vars

FailureIsNotCachedWitness ==
    /\ WithState("rejected") # {}
    /\ CacheState = "Ready"
    /\ \E r \in Reqs : Returned(r) /\ req[r].models.ok /\ req[r].awaits > 1

\* A step of the cache state machine.
CacheStep ==
    LET s == CacheState
        t == CacheStateOf(modelCache')
        success == \E id \in 1..Len(promises) :
                      promises[id].state = "pending" /\ promises'[id].state = "fulfilled"
        failure == \E id \in 1..Len(promises) :
                      promises[id].state = "pending" /\ promises'[id].state = "rejected"
        started == Len(promises') = Len(promises) + 1
    IN /\ s # t => \/ s = "Uninitialized" /\ t = "Initializing" /\ started
                   \/ s = "Initializing" /\ t = "Ready" /\ success
                   \/ s = "Initializing" /\ t = "Uninitialized" /\ failure
       /\ started => s = "Uninitialized" /\ t = "Initializing"
       /\ success => s = "Initializing" /\ t = "Ready"
       /\ failure => s = "Initializing" /\ t = "Uninitialized"
       /\ s = "Ready" => modelCache' = modelCache /\ promises' = promises
       /\ s = "Ready" =>
             \A r \in Reqs :
                 /\ Enters(r) => /\ req'[r].models.ok
                                 /\ req'[r].models.imageProcessor = modelCache.imageProcessor
                                 /\ req'[r].models.visionModel = modelCache.visionModel
                 /\ req[r].pc = "initWait" /\ req'[r].pc = "gotModels" /\ req'[r].models.ok =>
                                 /\ req'[r].models.imageProcessor = modelCache.imageProcessor
                                 /\ req'[r].models.visionModel = modelCache.visionModel

\* C4: the cache moves only Uninitialized -> Initializing (a caller starts a
\* construction), Initializing -> Ready (it succeeds) and Initializing ->
\* Uninitialized (it fails); once Ready the cache is never written again, no
\* construction is started, every call made from then on returns the stored pair,
\* and so does every earlier caller that is handed a pair after that.
CacheStateMachine == [][CacheStep]_vars

CacheStateMachineWitness ==
    /\ CacheState = "Ready"
    /\ \E r1, r2 \in Reqs :
          /\ req[r1].awaits = 0 /\ req[r1].pc = "done" /\ req[r1].status = 200
          /\ req[r2].awaits # 0 /\ req[r2].pc = "done" /\ req[r2].status = 200
          /\ req[r1].models = req[r2].models

(***************************************************************************)
(* EmbeddingProducer properties (specification SpecBatch).                 *)
(***************************************************************************)
Answered(r) == req[r].pc = "done" /\ req[r].models.ok

\* The entry callback i of request r returned.
Produced(r, i) ==
    WithoutIndex(req[r].settled[CHOOSE k \in 1..Len(req[r].settled) :
                                    req[r].settled[k].index = i])

\* C5: whatever the order in which the items of a batch complete, the answer has
\* one entry per validated path, and entry i is the one produced for path i.
OutputOrderIsInputOrder ==
    \A r \in Reqs :
        Answered(r) =>
            /\ req[r].status = 200
            /\ Len(req[r].embeddings) = Len(req[r].photoPaths)
            /\ \A i \in 1..Len(req[r].photoPaths) :
                  /\ req[r].embeddings[i].path = req[r].photoPaths[i]
                  /\ req[r].embeddings[i] = Produced(r, i)

OutputOrderWitness ==
    \E r \in Reqs :
        /\ Answered(r)
        /\ Len(req[r].photoPaths) = 2
        /\ req[r].photoPaths[1] # req[r].photoPaths[2]
        /\ req[r].settled[1].index = 2
        /\ req[r].embeddings[1].path = req[r].photoPaths[1]

\* C6: every entry of an answered batch has exactly one of embedding and error;
\* a path that failed (missing file or extraction error) has its error recorded,
\* the batch is still answered with status 200, and every path that succeeded
\* has its own embedding.
OneOfEmbeddingOrError ==
    \A r \in Reqs :
        /\ req[r].pc = "batch" =>
              \A k \in 1..Len(req[r].settled) :
                  (req[r].settled[k].embedding = Null) # (req[r].settled[k].error = Null)
        /\ Answered(r) =>
              /\ req[r].status = 200
              /\ Len(req[r].embeddings) = Len(req[r].photoPaths)
              /\ \A i \in 1..Len(req[r].embeddings) :
                    LET e == req[r].embeddings[i]
                    IN /\ (e.embedding = Null) # (e.error = Null)
                       /\ Produced(r, i).error = Null =>
                              e.embedding = Embedding(req[r].photoPaths[i])
                       /\ Produced(r, i).error # Null =>
                              e.embedding = Null /\ e.error = Produced(r, i).error

OneOfEmbeddingOrErrorWitness ==
    \E r \in Reqs :
        /\ Answered(r) /\ req[r].status = 200
        /\ \E i, j \in 1..Len(req[r].embeddings) :
              /\ req[r].embeddings[i].error # Null
              /\ req[r].embeddings[i].error # <<"extraction failed">>
              /\ req[r].embeddings[j].embedding # Null

(***************************************************************************)
(* ClusterEngine properties (specifications SpecDbscan and SpecReorder).   *)
(***************************************************************************)
Occurs(seq, x) == Cardinality({ k \in 1..Len(seq) : seq[k] = x })

\* The clusters of a result that list idx.
ClustersOf(res, idx) ==
    { c \in 1..Len(res.clusters) : Occurs(res.clusters[c], idx) > 0 }

InNoise(res, idx) == Occurs(res.noise, idx) > 0

SameCluster(res, i, j) == ClustersOf(res, i) \cap ClustersOf(res, j) # {}

\* j is in the neighbourhood of i: i itself, or within eps of it.
Within(st, i, j) ==
    \/ i = j
    \/ DistanceLeqEps(cosineDistance(st.embeddings[i], st.embeddings[j]), st.eps)

IsCore(st, i) ==
    Cardinality({ j \in DOMAIN st.embeddings : Within(st, i, j) }) >= st.minPts

NearCore(st, i) == \E q \in DOMAIN st.embeddings : IsCore(st, q) /\ Within(st, i, q)

\* C7: the result of dbscan is a partition of 0..N-1: every index is listed
\* exactly once, in one cluster or in noise, and nothing else is listed.
ResultIsPartition ==
    db.pc = "done" =>
        /\ \A idx \in DOMAIN db.embeddings :
              /\ Occurs(db.result.noise, idx)
                    + Cardinality(ClustersOf(db.result, idx)) = 1
              /\ \A c \in 1..Len(db.result.clusters) : Occurs(db.result.clusters[c], idx) <= 1
        /\ \A k \in 1..Len(db.result.noise) : db.result.noise[k] \in DOMAIN db.embeddings
        /\ \A c \in 1..Len(db.result.clusters) :
              \A k \in 1..Len(db.result.clusters[c]) :
                  db.result.clusters[c][k] \in DOMAIN db.embeddings

ResultIsPartitionWitness ==
    /\ db.pc = "done"
    /\ NumPoints(db) = MaxN
    /\ Len(db.result.clusters) >= 1
    /\ Len(db.result.noise) >= 1

\* C8: after dbscan a point is noise exactly when its own neighbourhood has fewer
\* than minPts points and no core point has it within eps; a point of that kind
\* that a core point does have within eps ends in the cluster of such a core
\* point, also when the main loop marked it noise before it met the core point.
NoiseIffNotNearCore ==
    db.pc = "done" =>
        \A idx \in DOMAIN db.embeddings :
            /\ InNoise(db.result, idx) <=> (~IsCore(db, idx) /\ ~NearCore(db, idx))
            /\ ~IsCore(db, idx) /\ NearCore(db, idx) =>
                  \E q \in DOMAIN db.embeddings :
                      IsCore(db, q) /\ Within(db, idx, q) /\ SameCluster(db.result, idx, q)

\* Point 0 is the first the main loop visits: it is marked noise there, and a core
\* point found later takes it into its cluster.
NoiseIffNotNearCoreWitness ==
    /\ db.pc = "done"
    /\ ~IsCore(db, 0)
    /\ ClustersOf(db.result, 0) # {}

\* C10: with minPts = 1 dbscan returns no noise, whatever the embeddings (the zero
\* vector among them) and whatever eps (0 too): every point is in a cluster.
NoNoiseWhenMinPtsIsOne ==
    db.pc = "done" /\ db.minPts = 1 =>
        /\ db.result.noise = <<>>
        /\ \A idx \in DOMAIN db.embeddings : ClustersOf(db.result, idx) # {}

NoNoiseWhenMinPtsIsOneWitness ==
    /\ db.pc = "done" /\ db.minPts = 1 /\ db.eps = 0
    /\ NumPoints(db) >= 2
    /\ \E idx \in DOMAIN db.embeddings :
          /\ db.embeddings[idx] = <<0, 0, 0>>
          /\ \E c \in ClustersOf(db.result, idx) : db.result.clusters[c] = <<idx>>

\* The core points of a run, and its non-core points that are within eps of core
\* points of two different clusters.
CorePoints(st) == { i \in DOMAIN st.embeddings : IsCore(st, i) }

BetweenClusters(st) ==
    LET core == CorePoints(st)
        cl == [i \in DOMAIN st.embeddings |-> ClustersOf(st.result, i)]
    IN { i \in DOMAIN st.embeddings \ core :
           \E p, q \in { c \in core : Within(st, i, c) } : cl[p] \cap cl[q] = {} }

A(i) == Arranged(db.embeddings, i)

\* C9 as claimed: in the run on the input and the run on its reordering the same
\* points are noise and the same pairs of points share a cluster.
SameGroupingUnderReordering ==
    other.pc = "done" =>
        /\ \A i \in DOMAIN db.embeddings :
              InNoise(db.result, i) <=> InNoise(other.result, A(i))
        /\ \A i, j \in DOMAIN db.embeddings :
              SameCluster(db.result, i, j) <=> SameCluster(other.result, A(i), A(j))

\* C9 as amended: the same points are noise, and the same pairs share a cluster
\* among the points that are not a non-core point within eps of core points of
\* two different clusters; such a point is in the cluster of one of those core
\* points in each run, not always the same.
SameGroupingExceptBetweenClusters ==
    other.pc = "done" =>
        LET D == DOMAIN db.embeddings
            to == [i \in D |-> A(i)]
            core == CorePoints(db)
            between == BetweenClusters(db)
            cl == [i \in D |-> ClustersOf(db.result, i)]
            clOther == [i \in D |-> ClustersOf(other.result, to[i])]
        IN /\ \A i \in D : InNoise(db.result, i) <=> InNoise(other.result, to[i])
           /\ { to[i] : i \in between } = BetweenClusters(other)
           /\ \A i \in between :
                 /\ \E q \in core : Within(db, i, q) /\ cl[i] \cap cl[q] # {}
                 /\ \E q \in core : Within(db, i, q) /\ clOther[i] \cap clOther[q] # {}
           /\ \A i, j \in D \ between :
                 (cl[i] \cap cl[j] # {}) <=> (clOther[i] \cap clOther[j] # {})

SameGroupingWitness ==
    /\ other.pc = "done"
    /\ \E i \in DOMAIN db.embeddings : A(i) # i
    /\ Len(db.result.clusters) >= 2
    /\ \E i, j \in DOMAIN db.embeddings :
          /\ i \in BetweenClusters(db)
          /\ SameCluster(db.result, i, j)
          /\ ~SameCluster(other.result, A(i), A(j))

(***************************************************************************)
(* The order of dbscan's output (specification SpecDbscan).                *)
(***************************************************************************)
\* The points in the order in which the run from st on gives them a cluster id
\* (the seed in the main loop, the others in expandCluster), and the seeds in the
\* order in which the main loop calls expandCluster on them.
RECURSIVE AssignedFrom(_)
AssignedFrom(st) ==
    IF st.pc \notin {"main", "expand"} THEN <<>>
    ELSE LET nx == IF st.pc = "main" THEN MainStep(st) ELSE ExpandStep(st)
             newly == { i \in DOMAIN st.points :
                          st.points[i].clusterId = -1 /\ nx.points[i].clusterId # -1 }
         IN (IF newly = {} THEN <<>> ELSE <<CHOOSE i \in newly : TRUE>>) \o AssignedFrom(nx)

RECURSIVE SeedsFrom(_)
SeedsFrom(st) ==
    IF st.pc \notin {"main", "expand"} THEN <<>>
    ELSE LET nx == IF st.pc = "main" THEN MainStep(st) ELSE ExpandStep(st)
         IN (IF st.pc = "main" /\ nx.pc = "expand" THEN <<st.i>> ELSE <<>>) \o SeedsFrom(nx)

DiscoveryOrder(st) == AssignedFrom(DbscanStart(st.embeddings, st.eps, st.minPts))

Seeds(st) == SeedsFrom(DbscanStart(st.embeddings, st.eps, st.minPts))

\* The members of the cluster that holds idx, in the order they were assigned.
DiscoveredWith(st, idx) ==
    SelectSeq(DiscoveryOrder(st),
              LAMBDA i : st.points[i].clusterId = st.points[idx].clusterId)

IsAscending(s) == \A k \in 1..(Len(s) - 1) : s[k] < s[k + 1]

ClustersInSeedOrder ==
    db.pc = "done" =>
        LET seeds == Seeds(db)
        IN /\ Len(db.result.clusters) = Len(seeds)
           /\ IsAscending(seeds)
           /\ \A k \in 1..Len(db.result.clusters) :
                 /\ db.result.clusters[k] # <<>>
                 /\ \E m \in 1..Len(db.result.clusters[k]) :
                       db.result.clusters[k][m] = seeds[k]

\* Two clusters, one of them with more than its seed.
ClustersInSeedOrderWitness ==
    /\ db.pc = "done"
    /\ Len(db.result.clusters) >= 2
    /\ Seeds(db)[1] < Seeds(db)[2]
    /\ \E k \in 1..Len(db.result.clusters) : Len(db.result.clusters[k]) >= 2

(***************************************************************************)
(* Grouping properties (specification SpecGroup).                          *)
(***************************************************************************)
\* The handler has answered 200 with groups.
Grouped == grp.pc = "done" /\ grp.response.status = 200

\* How many times a photo is in the groups and the ungrouped list of a response.
RECURSIVE Occurrences(_, _)
Occurrences(photos, photo) ==
    IF photos = <<>> THEN 0
    ELSE (IF Head(photos) = photo THEN 1 ELSE 0) + Occurrences(Tail(photos), photo)

RECURSIVE OccurrencesInGroups(_, _)
OccurrencesInGroups(groups, photo) ==
    IF groups = <<>> THEN 0
    ELSE Occurrences(Head(groups), photo) + OccurrencesInGroups(Tail(groups), photo)

TimesReported(response, photo) ==
    OccurrencesInGroups(response.groups, photo) + Occurrences(response.ungrouped, photo)

\* C13: in every 200 answer of the grouping handler each input photo is
\* reported exactly once, in a group or in ungrouped, and totalPhotos is the sum
\* of the group sizes plus ungroupedCount.
PhotosReportedOnce ==
    Grouped =>
        /\ \A k \in 1..Len(grp.photos) : TimesReported(grp.response, grp.photos[k]) = 1
        /\ grp.response.stats.totalPhotos =
               SumOfLengths(grp.response.groups) + grp.response.stats.ungroupedCount

\* C14: in every 200 answer each photo whose embedding is null is in ungrouped
\* and in no group, ungroupedCount is the length of ungrouped, and dbscan, when it
\* ran, was given exactly the vectors of the other photos, in order.
FailedPhotosUngrouped ==
    Grouped =>
        /\ \A k \in 1..Len(grp.photos) :
              grp.answer[k].embedding = Null =>
                  /\ Occurrences(grp.response.ungrouped, grp.photos[k]) >= 1
                  /\ OccurrencesInGroups(grp.response.groups, grp.photos[k]) = 0
        /\ grp.response.stats.ungroupedCount = Len(grp.response.ungrouped)
        /\ grp.run # DbIdle =>
              LET valid == SelectSeq(grp.answer, LAMBDA e : e.embedding # Null)
              IN grp.run.embeddings = [i \in 0..(Len(valid) - 1) |-> valid[i + 1].embedding]

\* C15: when the embeddings arrive and none of them is a vector, the handler
\* does not call dbscan and answers 200 with no group, every input photo in
\* ungrouped in input order, groupCount 0 and ungroupedCount the number of photos.
NoEmbeddingShortCircuit ==
    /\ grp.pc = "done"
    /\ grp.answer # <<>>
    /\ \A k \in 1..Len(grp.answer) : grp.answer[k].embedding = Null
    => /\ grp.run = DbIdle
       /\ grp.response.status = 200
       /\ grp.response.groups = <<>>
       /\ grp.response.ungrouped = grp.body.photos.items
       /\ grp.response.stats.groupCount = 0
       /\ grp.response.stats.ungroupedCount = Len(grp.body.photos.items)

NoEmbeddingShortCircuitWitness ==
    /\ grp.pc = "done"
    /\ Len(grp.answer) >= 2
    /\ \A k \in 1..Len(grp.answer) : grp.answer[k].embedding = Null
    /\ grp.response.stats.ungroupedCount = Len(grp.answer)

\* The caller faults of the taxonomy in a grouping request: a path longer than
\* the limit or with a null byte, an empty or oversized array, eps or minPts out
\* of range, a minPts that is no integer.
HasCallerFault(body) ==
    \/ /\ body.photos.isArray
       /\ \/ ArrayLength(body.photos) = 0
          \/ ArrayLength(body.photos) > maxCount
          \/ \E k \in 1..Len(body.photos.items) :
                LET path == body.photos.items[k].path
                IN path.type = "string" /\ (StrLength(path) > maxLength \/ IncludesNul(path))
    \/ body.eps.type = "number" /\ body.eps.den # 0
           /\ (body.eps.num < 0 \/ body.eps.num > body.eps.den)
    \/ body.minPts.type = "number" /\ body.minPts.den # 0
           /\ \/ ~IsInteger(body.minPts)
              \/ body.minPts.num < body.minPts.den
              \/ body.minPts.num > 100 * body.minPts.den

\* C16: a grouping request with a caller fault is answered 400, never 500.
CallerFaultIsClientError ==
    grp.pc = "done" /\ HasCallerFault(grp.body) => grp.response.status = 400

\* The photos of a body pass validatePhotosArray.
PhotosAccepted(body) == validatePhotosArray(body.photos, maxCount).ok

IsAbsent(v) == v.type = "undefined"

EpsInRange(v) == v.type = "number" /\ v.den # 0 /\ 0 <= v.num /\ v.num <= v.den

MinPtsInRange(v) == IsInteger(v) /\ v.den <= v.num /\ v.num <= 100 * v.den

\* What the handler clusters with: the value sent, or the default when `missing`
\* says the value sent counts as not given.
Effective(v, missing, default) == IF missing THEN default ELSE v

\* The handler treats eps and minPts as the claim says when `missing(v)` are the
\* values that count as not given: with valid photos the request is rejected
\* (400, naming the field) unless each is missing or in range, and otherwise the
\* values validated, and given to dbscan when it runs, are the ones sent or the
\* defaults 0.25 and 2.
ParametersHandled(missing(_)) ==
    grp.pc = "done" /\ PhotosAccepted(grp.body) =>
        LET eps == grp.body.eps
            minPts == grp.body.minPts
            epsOk == missing(eps) \/ EpsInRange(eps)
            minPtsOk == missing(minPts) \/ MinPtsInRange(minPts)
        IN /\ ~epsOk => grp.response = ErrorResponse(400, "eps")
           /\ epsOk /\ ~minPtsOk => grp.response = ErrorResponse(400, "minPts")
           /\ epsOk /\ minPtsOk =>
                 /\ grp.response.status # 400
                 /\ grp.fetched
                 /\ grp.eps = Effective(eps, missing(eps), Num(1, 4))
                 /\ grp.minPts = Effective(minPts, missing(minPts), Num(2, 1))
                 /\ grp.run # DbIdle =>
                       /\ grp.run.eps * grp.eps.den = grp.eps.num * EpsDen
                       /\ grp.run.minPts * grp.minPts.den = grp.minPts.num

\* C18 as claimed: eps and minPts are accepted exactly when in range, and only
\* an absent one is replaced by its default.
ParametersAcceptedExactly == ParametersHandled(IsAbsent)

\* C18 as amended: a null eps or minPts is replaced by the default as an absent
\* one is; every other value is accepted exactly when it is a finite number in
\* [0, 1] (eps) or an integer in 1..100 (minPts), and rejected with a validation
\* error otherwise.
ParametersAcceptedOrDefaulted ==
    ParametersHandled(LAMBDA v : v.type \in {"undefined", "null"})

\* A request without eps and with minPts null that reaches dbscan.
ParametersWitness ==
    /\ grp.pc = "done"
    /\ grp.body.eps = Undefined /\ grp.body.minPts = JsNull
    /\ grp.run # DbIdle
    /\ grp.run.minPts = 2 /\ grp.run.eps = 1

(***************************************************************************)
(* Density reachability (specification SpecDbscan).                        *)
(***************************************************************************)
\* The core points linked to those of S by a chain of core points in which each
\* is within eps of the next; near[i] is the set of core points within eps of i.
RECURSIVE CoreChain(_, _)
CoreChain(near, S) ==
    LET T == S \cup UNION { near[i] : i \in S }
    IN IF T = S THEN S ELSE CoreChain(near, T)

CoreChainsAreClusters(st) ==
    st.pc = "done" =>
        LET core == CorePoints(st)
            near == [i \in core |-> { j \in core : Within(st, i, j) }]
            cl == [i \in core |-> ClustersOf(st.result, i)]
        IN \A i \in core :
              LET chain == CoreChain(near, {i})
              IN \A j \in core :
                    /\ (cl[i] \cap cl[j] # {}) <=> j \in chain
                    /\ j \in near[i] => cl[i] \cap cl[j] # {}

\* C23: two core points are in the same cluster if and only if they are linked
\* by a chain of core points in which each is within eps of the next, and two
\* core points within eps of each other are never in different clusters,
\* whatever the order of the embeddings in the input.
CoreChains == CoreChainsAreClusters(db)

\* The run is over; its first and last points are core points that are apart
\* and share a cluster through the core point between them.
CoreChainsWitness ==
    /\ db.pc = "done"
    /\ NumPoints(db) = 3
    /\ CorePoints(db) = {0, 1, 2}
    /\ ~Within(db, 0, 2)
    /\ SameCluster(db.result, 0, 2)

(***************************************************************************)
(* The steps of a dbscan run (specification SpecExpand).                   *)
(***************************************************************************)
\* The point the next iteration of expandCluster takes from the work-list.
AtNeighbor == db.pc = "expand" /\ db.n < Len(db.neighbors)

\* C24: during a dbscan run a point's cluster id changes at most once, from -1
\* to the id of the cluster being built; a point that has a cluster id keeps it
\* when it reappears in the work-list of a later cluster; a visited point stays
\* visited and is never expanded again: the work-list grows only in the step
\* that visits a point for the first time, by that point's neighbourhood.
AssignedOnceExpandedOnce ==
    [][ /\ \A i \in DOMAIN db.points :
              /\ db'.points[i].clusterId # db.points[i].clusterId =>
                    /\ db.points[i].clusterId = -1
                    /\ db'.points[i].clusterId = db.clusterId
              /\ db.points[i].visited => db'.points[i].visited
        /\ (AtNeighbor /\ db.points[db.neighbors[db.n + 1]].visited) =>
              db'.neighbors = db.neighbors
        /\ (AtNeighbor /\ db'.neighbors # db.neighbors) =>
              LET neighborIdx == db.neighbors[db.n + 1]
              IN /\ ~db.points[neighborIdx].visited
                 /\ db'.points[neighborIdx].visited
                 /\ db'.neighbors = db.neighbors \o regionQuery(db, neighborIdx) ]_vars

\* The next point of the work-list of the second cluster has the id of the first.
AssignedOnceExpandedOnceWitness ==
    /\ AtNeighbor
    /\ db.clusterId = 1
    /\ db.points[db.neighbors[db.n + 1]].clusterId = 0
    /\ db.points[db.neighbors[db.n + 1]].visited

\* The vectors of an embeddings response that are not null.
ValidVectors(embeddings) ==
    LET valid == SelectSeq(embeddings, LAMBDA e : e.embedding # Null)
    IN [k \in 1..Len(valid) |-> valid[k].embedding]

\* C25: if two embedding vectors that dbscan compares have different lengths,
\* dbscan throws instead of returning a partition, and the grouping request
\* fails as a whole: the response is 500 and holds no groups, no ungrouped
\* photos and no statistics.
MismatchFailsRequest ==
    (grp.pc = "done" /\ grp.fetched /\ grp.answer # <<>>) =>
        LET vectors == ValidVectors(grp.answer)
        IN (\E i, j \in 1..Len(vectors) : Len(vectors[i]) # Len(vectors[j])) =>
              /\ grp.run.pc = "thrown"
              /\ grp.run.result = [clusters |-> <<>>, noise |-> <<>>]
              /\ grp.response.status = 500
              /\ grp.response.groups = <<>>
              /\ grp.response.ungrouped = <<>>
              /\ grp.response.embeddings = <<>>

\* Three embeddings arrived, the last one shorter than the first two, which are
\* within eps of each other: no group was returned for them.
MismatchFailsRequestWitness ==
    /\ grp.pc = "done"
    /\ Len(grp.answer) = 3
    /\ \A k \in 1..3 : grp.answer[k].embedding # Null
    /\ grp.answer[1].embedding = <<1, 0, 0>>
    /\ grp.answer[2].embedding = <<4, 3, 0>>
    /\ grp.answer[3].embedding = <<1, 0>>
    /\ grp.minPts = Num(2, 1)
    /\ grp.response.status = 500

(***************************************************************************)
(* The handler with two module-level variables (specification SpecVariant).*)
(***************************************************************************)
Constructing == { c \in 1..NumCalls : variant.calls[c].pc \in {"processor", "model"} }

\* C26: concurrent calls to initializeModel during first use cause the
\* construction to happen exactly once: no two calls are loading at the same
\* time and every object stored was loaded by the one call that constructed;
\* and a failure while loading leaves no state that a later call treats as
\* ready without both objects: a call that returns without constructing
\* returns a processor and a model.
VariantConstructsOnce ==
    /\ Cardinality(Constructing) <= 1
    /\ Cardinality({ c \in 1..NumCalls :
                       variant.calls[c].constructed /\ variant.calls[c].status # 500 }) <= 1
    /\ \A c \in 1..NumCalls :
          variant.calls[c].pc = "mapping" \/ variant.calls[c].status = 200 =>
             /\ variant.calls[c].imageProcessor # 0
             /\ variant.calls[c].visionModel # 0

(***************************************************************************)
(* The photo viewer page (specification SpecViewer).                       *)
(***************************************************************************)
\* C30: after any sequence of folder scans, next and previous actions, whenever
\* the photo list is not empty the current index is a valid index into it.
CurrentIndexIsValid ==
    Len(viewer.photos) > 0 =>
        /\ 0 <= viewer.currentIndex
        /\ viewer.currentIndex < Len(viewer.photos)

(***************************************************************************)
(* Termination of dbscan (specification SpecDbscanFair).                   *)
(***************************************************************************)
Visited(st) == { i \in DOMAIN st.points : st.points[i].visited }

\* C27: dbscan terminates for every input, eps and minPts.  regionQuery has been
\* called once for each visited point, so at most N times and, when dbscan
\* returns, exactly N times; the work-list never holds more than N
\* neighbourhoods of at most N points; and every run reaches its return or throw.
DbscanTerminates ==
    /\ [](/\ db.queries = Cardinality(Visited(db))
          /\ db.queries <= NumPoints(db)
          /\ Len(db.neighbors) <= NumPoints(db) * NumPoints(db)
          /\ db.pc = "done" => db.queries = NumPoints(db))
    /\ <>(db.pc \in {"done", "thrown"})

\* The work-list is longer than the input and lists a point twice, and the
\* iteration has reached a point that was expanded before.
DbscanTerminatesWitness ==
    /\ AtNeighbor
    /\ Len(db.neighbors) > NumPoints(db)
    /\ db.points[db.neighbors[db.n + 1]].visited
    /\ \E j \in 1..db.n : db.neighbors[j] = db.neighbors[db.n + 1]

\* C28: every cluster dbscan returns holds a core point, so none is empty, and
\* with minPts 2 every returned cluster has two members or more.
ClustersHoldCore ==
    db.pc = "done" =>
        \A c \in 1..Len(db.result.clusters) :
            /\ \E k \in 1..Len(db.result.clusters[c]) : IsCore(db, db.result.clusters[c][k])
            /\ Len(db.result.clusters[c]) > 0
            /\ db.minPts = 2 => Len(db.result.clusters[c]) >= 2

\* With minPts 2 a pair is returned as a cluster and a third point as noise.
ClustersHoldCoreWitness ==
    /\ db.pc = "done"
    /\ db.minPts = 2
    /\ Len(db.result.noise) = 1
    /\ \E c \in 1..Len(db.result.clusters) : Len(db.result.clusters[c]) = 2

(***************************************************************************)
(* Progress of initializeModel (specification SpecAcquire).                *)
(***************************************************************************)
\* C29: when every construction attempt completes, every call of initializeModel
\* that waits for a construction returns, with the models or with the failure.
AcquireReturns ==
    \A r \in Reqs : (req[r].pc = "initWait") ~> (req[r].pc = "gotModels")

\* Requests 1 and 2 waited for the first construction and both returned with its
\* failure; request 3 arrived after the failure, waited for the second
\* construction and has returned too.
AcquireReturnsWitness ==
    /\ \A r \in Reqs : req[r].pc \notin {"idle", "initWait"}
    /\ req[1].awaits = 1 /\ ~req[1].models.ok
    /\ req[2].awaits = 1 /\ ~req[2].models.ok
    /\ req[3].awaits = 2
    /\ promises[1].state = "rejected"
====
